---------------------------- MODULE Spec2Model ----------------------------
(* Verification model of mcp_databases: the SQL security validator         *)
(* (security.py), the free-form query tool (tools/execute_query.py), the   *)
(* DDL tools (tools/ddl_operations.py) and the DML tools                   *)
(* (tools/dml_operations.py), with the database adapter (db/*.py) as the   *)
(* environment that records every connection and statement it is given.    *)
(*                                                                         *)
(* Texts are TLA+ strings; a character is a string of length one.  The     *)
(* regular expressions of the source are written out as operators over     *)
(* character positions, with Python's semantics (re.search, re.match,      *)
(* \b, \w, \s, '.', '$').                                                   *)
EXTENDS Integers, Sequences, FiniteSets, TLC

VARIABLES op,       \* the tool being run
          req,      \* its params dictionary
          pc,       \* position inside the tool's code
          loc,      \* the tool's local variables
          result,   \* what the caller gets back: a value or a raised error
          conns,    \* connections opened so far (db._connect() calls)
          open,     \* connections currently open
          sent,     \* statements handed to cursor.execute, in order
          committed \* the statements of them that conn.commit() of
                    \* _execute_ddl_safely and _execute_dml_safely made durable

vars == <<op, req, pc, loc, result, conns, open, sent, committed>>

-----------------------------------------------------------------------------
(* Characters and strings (Python str, ASCII range)                        *)

LowerAlpha == "abcdefghijklmnopqrstuvwxyz"
UpperAlpha == "ABCDEFGHIJKLMNOPQRSTUVWXYZ"
Digits == "0123456789"

Char(s, i) == IF i >= 1 /\ i <= Len(s) THEN SubSeq(s, i, i) ELSE ""

CharsOf(s) == {SubSeq(s, i, i) : i \in 1..Len(s)}

LowerChars == CharsOf(LowerAlpha)

UpperChars == CharsOf(UpperAlpha)

DigitChars == CharsOf(Digits)

IsLetter(c) == c \in LowerChars \/ c \in UpperChars

IsDigit(c) == c \in DigitChars

\* \w of the re module
WordChars == LowerChars \cup UpperChars \cup DigitChars \cup {"_"}

IsWord(c) == c \in WordChars

\* \s of the re module, and the separators of str.split()
SpaceChars == {" ", "\n", "\t", "\r", "\f"}

IsSpace(c) == c \in SpaceChars

UpperOf ==
    [c \in LowerChars |->
        SubSeq(UpperAlpha, CHOOSE k \in 1..26 : SubSeq(LowerAlpha, k, k) = c,
                           CHOOSE k \in 1..26 : SubSeq(LowerAlpha, k, k) = c)]

LowerOf ==
    [c \in UpperChars |->
        SubSeq(LowerAlpha, CHOOSE k \in 1..26 : SubSeq(UpperAlpha, k, k) = c,
                           CHOOSE k \in 1..26 : SubSeq(UpperAlpha, k, k) = c)]

\* str.upper() of one character
UpperChar(c) == IF c \in LowerChars THEN UpperOf[c] ELSE c

\* str.lower() of one character
LowerChar(c) == IF c \in UpperChars THEN LowerOf[c] ELSE c

RECURSIVE MapChars(_, _, _)
MapChars(s, i, upper) ==
    IF i > Len(s) THEN ""
    ELSE (IF upper THEN UpperChar(Char(s, i)) ELSE LowerChar(Char(s, i)))
         \o MapChars(s, i + 1, upper)

Upper(s) == MapChars(s, 1, TRUE)

Lower(s) == MapChars(s, 1, FALSE)

\* the literal w occurs in s at position i
HasAt(s, w, i) == i >= 1 /\ i + Len(w) - 1 <= Len(s) /\ SubSeq(s, i, i + Len(w) - 1) = w

\* \b between position i-1 and position i
Boundary(s, i) == IsWord(Char(s, i - 1)) # IsWord(Char(s, i))

\* every character of s[a..b] satisfies the class
AllSpace(s, a, b) == \A m \in a..b : IsSpace(Char(s, m))

NoNewline(s, a, b) == \A m \in a..b : Char(s, m) # "\n"

AllWord(s, a, b) == \A m \in a..b : IsWord(Char(s, m))

\* re.search(r'\b' + re.escape(w) + r'\b', s)
SearchWholeWord(s, w) ==
    \E i \in 1..Len(s) : HasAt(s, w, i) /\ Boundary(s, i) /\ Boundary(s, i + Len(w))

\* s.startswith(w)
StartsWith(s, w) == HasAt(s, w, 1)

-----------------------------------------------------------------------------
(* security.py: SQLSecurityValidator                                       *)

DANGEROUS_COMMANDS ==
    {"DELETE", "DROP", "TRUNCATE", "ALTER", "CREATE", "EXEC", "EXECUTE",
     "INSERT", "UPDATE", "MERGE", "BULK", "OPENROWSET", "OPENDATASOURCE",
     "xp_", "sp_", "SHUTDOWN", "KILL", "RESTORE", "BACKUP"}

\* the alternation (DELETE|DROP|TRUNCATE|ALTER|CREATE|INSERT|UPDATE) of the
\* last three DANGEROUS_PATTERNS
PATTERN_VERBS == {"DELETE", "DROP", "TRUNCATE", "ALTER", "CREATE", "INSERT", "UPDATE"}

ALLOWED_COMMANDS == {"SELECT", "WITH"}

CONDITIONAL_COMMANDS == {"UNION", "INTERSECT", "EXCEPT"}

MODIFICATION_COMMANDS == {"INSERT", "UPDATE", "DELETE", "MERGE"}

\* index of the end of the line that position i is on: the first "\n" at or
\* after i, or Len(s) + 1
RECURSIVE LineEnd(_, _)
LineEnd(s, i) == IF i > Len(s) \/ Char(s, i) = "\n" THEN i ELSE LineEnd(s, i + 1)

\* re.sub(r'--.*$', '', query, flags=re.MULTILINE)
RECURSIVE StripLineComments(_, _)
StripLineComments(s, i) ==
    IF i > Len(s) THEN ""
    ELSE IF HasAt(s, "--", i) THEN StripLineComments(s, LineEnd(s, i))
    ELSE Char(s, i) \o StripLineComments(s, i + 1)

\* position of the first "*/" at or after i, or 0
RECURSIVE BlockEnd(_, _)
BlockEnd(s, i) ==
    IF i + 1 > Len(s) THEN 0
    ELSE IF HasAt(s, "*/", i) THEN i ELSE BlockEnd(s, i + 1)

\* re.sub(r'/\*.*?\*/', '', query, flags=re.DOTALL)
RECURSIVE StripBlockComments(_, _)
StripBlockComments(s, i) ==
    IF i > Len(s) THEN ""
    ELSE IF HasAt(s, "/*", i) /\ BlockEnd(s, i + 2) # 0
         THEN StripBlockComments(s, BlockEnd(s, i + 2) + 2)
    ELSE Char(s, i) \o StripBlockComments(s, i + 1)

\* ' '.join(query.split()): runs of whitespace become one space, leading and
\* trailing whitespace goes
RECURSIVE JoinSplit(_, _, _)
JoinSplit(s, i, started) ==
    IF i > Len(s) THEN ""
    ELSE IF IsSpace(Char(s, i)) THEN JoinSplit(s, i + 1, started)
    ELSE (IF started /\ IsSpace(Char(s, i - 1)) THEN " " ELSE "")
         \o Char(s, i) \o JoinSplit(s, i + 1, TRUE)

_clean_query(query) ==
    JoinSplit(StripBlockComments(StripLineComments(query, 1), 1), 1, FALSE)

\* the members of DANGEROUS_COMMANDS found as whole words in query.upper()
_check_dangerous_commands(query) ==
    LET query_upper == Upper(query)
    IN {cmd \in DANGEROUS_COMMANDS : SearchWholeWord(query_upper, Upper(cmd))}

\* X.*\s*(DELETE|DROP|...): the literal lead, then characters of one line,
\* then whitespace, then one of the verbs (not as a whole word); the position
\* after the verb, for every way the pattern matches in u
VerbAfter(u, lead) ==
    LET leads == {i \in 1..Len(u) : HasAt(u, lead, i)}
        verbs == {h \in (1..Len(u)) \X PATTERN_VERBS : HasAt(u, h[2], h[1])}
    IN {h[1] + Len(h[2]) :
           h \in {h \in verbs :
                     \E i \in leads :
                         /\ h[1] >= i + Len(lead)
                         /\ \E k \in (i + Len(lead))..h[1] :
                                /\ NoNewline(u, i + Len(lead), k - 1)
                                /\ AllSpace(u, k, h[1] - 1)}}

\* word, optional whitespace, "(":  \bEXEC\s*\(
WordThenParen(u, w) ==
    \E i \in 1..Len(u) :
        /\ Boundary(u, i) /\ HasAt(u, w, i)
        /\ \E j \in (i + Len(w))..Len(u) :
               Char(u, j) = "(" /\ AllSpace(u, i + Len(w), j - 1)

\* the DANGEROUS_PATTERNS entries (by 1-based position in the list) that
\* re.search(pattern, query, re.IGNORECASE) finds
_check_dangerous_patterns(query) ==
    LET u == Upper(query) IN
    {n \in 1..14 :
        CASE n = 1 -> WordThenParen(u, "EXEC")
          [] n = 2 -> WordThenParen(u, "EXECUTE")
          [] n = 3 -> SearchWholeWord(u, "SP_EXECUTESQL")
          [] n = 4 -> WordThenParen(u, "EVAL")
          [] n = 5 -> \E i \in 1..Len(u) : HasAt(u, "@@", i) /\ IsWord(Char(u, i + 2))
          [] n = 6 -> \E i \in 1..Len(u) :
                         Boundary(u, i) /\ HasAt(u, "XP_", i) /\ IsWord(Char(u, i + 3))
          [] n = 7 -> SearchWholeWord(u, "OPENROWSET")
          [] n = 8 -> SearchWholeWord(u, "OPENDATASOURCE")
          [] n = 9 -> \E i \in 1..Len(u) :
                         /\ Boundary(u, i) /\ HasAt(u, "BULK", i)
                         /\ \E j \in (i + 5)..Len(u) :
                                /\ AllSpace(u, i + 4, j - 1)
                                /\ HasAt(u, "INSERT", j) /\ Boundary(u, j + 6)
          [] n = 10 -> SearchWholeWord(u, "SHUTDOWN")
          [] n = 11 -> SearchWholeWord(u, "KILL")
          [] n = 12 -> VerbAfter(u, ";") # {}
          [] n = 13 -> VerbAfter(u, "--") # {}
          [] n = 14 -> \E e \in VerbAfter(u, "/*") :
                          \E c \in e..Len(u) : HasAt(u, "*/", c) /\ NoNewline(u, e, c - 1)}

_check_modification_commands(query) ==
    LET query_upper == Upper(query)
    IN {cmd \in MODIFICATION_COMMANDS : SearchWholeWord(query_upper, cmd)}

_check_conditional_commands(query) ==
    LET query_upper == Upper(query)
    IN {cmd \in CONDITIONAL_COMMANDS : SearchWholeWord(query_upper, cmd)}

\* length of the run of \w characters that starts at position i
RECURSIVE WordRun(_, _)
WordRun(s, i) == IF IsWord(Char(s, i)) THEN 1 + WordRun(s, i + 1) ELSE 0

\* str.strip()
RECURSIVE LStrip(_)
LStrip(s) == IF Len(s) > 0 /\ IsSpace(Char(s, 1)) THEN LStrip(SubSeq(s, 2, Len(s))) ELSE s

RECURSIVE RStrip(_)
RStrip(s) ==
    IF Len(s) > 0 /\ IsSpace(Char(s, Len(s))) THEN RStrip(SubSeq(s, 1, Len(s) - 1)) ELSE s

Strip(s) == RStrip(LStrip(s))

\* re.match(r'^(\w+)', query.upper().strip()), "" when there is no match
_get_first_command(query) ==
    LET query_upper == Strip(Upper(query)) IN SubSeq(query_upper, 1, WordRun(query_upper, 1))

\* validate_query's return value: is_safe and the kind of message
Verdict(is_safe, message) == [is_safe |-> is_safe, message |-> message]

validate_query(query, allow_modifications) ==
    IF query = "" THEN Verdict(FALSE, "Query vazia ou invalida")
    ELSE LET cleaned_query == _clean_query(query) IN
    IF Strip(cleaned_query) = "" THEN Verdict(FALSE, "Query vazia apos limpeza")
    ELSE IF _check_dangerous_commands(cleaned_query) # {}
        THEN Verdict(FALSE, "COMANDO PERIGOSO DETECTADO")
    ELSE IF _check_dangerous_patterns(cleaned_query) # {}
        THEN Verdict(FALSE, "PADRAO PERIGOSO DETECTADO")
    ELSE IF ~allow_modifications /\ _check_modification_commands(cleaned_query) # {}
        THEN Verdict(FALSE, "COMANDOS DE MODIFICACAO DETECTADOS")
    ELSE IF _check_conditional_commands(cleaned_query) # {}
        THEN Verdict(FALSE, "COMANDOS CONDICIONAIS DETECTADOS")
    ELSE LET first_command == _get_first_command(cleaned_query) IN
    IF /\ first_command # "" /\ first_command \notin ALLOWED_COMMANDS
       /\ (~allow_modifications \/ first_command \in DANGEROUS_COMMANDS)
        THEN Verdict(FALSE, "COMANDO NAO PERMITIDO")
    ELSE Verdict(TRUE, "Query validada com sucesso")

\* validate_sql_security without its raise: every query passes
validate_sql_security_never_raises(query, allow_modifications) ==
    Verdict(TRUE, "Query validada com sucesso")

\* validate_sql_security raises SQLSecurityError exactly when the verdict is
\* not safe
validate_sql_security(query, allow_modifications) ==
    validate_query(query, allow_modifications)

-----------------------------------------------------------------------------
(* Connection parameters: utils.py and db/factory.py.  A parameter          *)
(* dictionary is a function from keys to strings; "" is a falsy value.       *)

Get(params, key) == IF key \in DOMAIN params THEN params[key] ELSE ""

Put(params, key, value) ==
    [k \in DOMAIN params \cup {key} |-> IF k = key THEN value ELSE params[k]]

EmptyDict == [k \in {} |-> ""]

is_valid_conn_params(conn_params) ==
    LET has_server == Get(conn_params, "server") # "" \/ Get(conn_params, "host") # ""
        has_database == \/ Get(conn_params, "database") # ""
                        \/ Get(conn_params, "db") # ""
                        \/ Get(conn_params, "dbname") # ""
    IN has_server /\ has_database

\* ensure_valid_conn_params(db_type, conn_params) when get_db_config returns
\* env_params; the result is EmptyDict when it raises ValueError
ensure_valid_conn_params(conn_params, env_params) ==
    IF conn_params = EmptyDict \/ ~is_valid_conn_params(conn_params)
    THEN env_params
    ELSE conn_params

\* the normalization that takes dbname before db
normalize_conn_params_dbname_first(params) ==
    LET with_server ==
            IF "server" \notin DOMAIN params /\ "host" \in DOMAIN params
            THEN Put(params, "server", params["host"]) ELSE params
    IN IF "database" \in DOMAIN with_server THEN with_server
       ELSE IF "dbname" \in DOMAIN with_server
            THEN Put(with_server, "database", with_server["dbname"])
       ELSE IF "db" \in DOMAIN with_server
            THEN Put(with_server, "database", with_server["db"])
       ELSE with_server

normalize_conn_params(params) ==
    LET with_server ==
            IF "server" \notin DOMAIN params /\ "host" \in DOMAIN params
            THEN Put(params, "server", params["host"]) ELSE params
    IN IF "database" \in DOMAIN with_server THEN with_server
       ELSE IF "db" \in DOMAIN with_server
            THEN Put(with_server, "database", with_server["db"])
       ELSE IF "dbname" \in DOMAIN with_server
            THEN Put(with_server, "database", with_server["dbname"])
       ELSE with_server

\* validate_conn_params: the required parameters that are missing
validate_conn_params(params) ==
    {param \in {"server", "database", "user"} : Get(params, param) = ""}

SUPPORTED_TYPES == {"mssql", "mysql", "postgres"}

\* get_db(db_type, conn_params): the conn_params of the adapter instance, or
\* the ValueError it raises
get_db(db_type, conn_params) ==
    IF db_type \notin SUPPORTED_TYPES THEN [ok |-> FALSE, conn_params |-> EmptyDict]
    ELSE IF conn_params = EmptyDict THEN [ok |-> FALSE, conn_params |-> EmptyDict]
    ELSE IF validate_conn_params(normalize_conn_params(conn_params)) # {}
         THEN [ok |-> FALSE, conn_params |-> EmptyDict]
    ELSE [ok |-> TRUE, conn_params |-> normalize_conn_params(conn_params)]

\* the keys every _connect() of db/postgres.py, db/mysql.py, db/mssql.py reads
ConnectKeys == {"server", "database", "user", "password"}

-----------------------------------------------------------------------------
(* Identifier, type and constraint policy: tools/ddl_operations.py and      *)
(* tools/dml_operations.py                                                   *)

\* what a pattern ending in '$' may match of s with re.match: all of s, or
\* s without its final newline
DollarBodies(s) ==
    {s} \cup (IF Len(s) > 0 /\ Char(s, Len(s)) = "\n" THEN {SubSeq(s, 1, Len(s) - 1)} ELSE {})

\* [a-zA-Z][a-zA-Z0-9_]* against the whole of s
IsIdentifier(s) == Len(s) >= 1 /\ IsLetter(Char(s, 1)) /\ AllWord(s, 2, Len(s))

\* re.match(r'^[a-zA-Z][a-zA-Z0-9_]*$', name)
MatchesIdentifierPattern(name) == \E body \in DollarBodies(name) : IsIdentifier(body)

dangerous_names == {"admin", "root", "sys", "system", "master", "information_schema"}

\* ddl_operations._validate_table_name: TRUE when it does not raise
ddl_validate_table_name(table_name) ==
    /\ table_name # ""
    /\ MatchesIdentifierPattern(table_name)
    /\ Lower(table_name) \notin dangerous_names

\* ddl_operations._validate_column_name
ddl_validate_column_name(column_name) ==
    column_name # "" /\ MatchesIdentifierPattern(column_name)

\* dml_operations._validate_table_name
dml_validate_table_name(table_name) ==
    table_name # "" /\ MatchesIdentifierPattern(table_name)

\* dml_operations._validate_column_name
dml_validate_column_name(column_name) ==
    column_name # "" /\ MatchesIdentifierPattern(column_name)

AllDigit(s, a, b) == \A m \in a..b : IsDigit(Char(s, m))

\* \(\d+\)
OneArg(s) ==
    Len(s) >= 3 /\ Char(s, 1) = "(" /\ Char(s, Len(s)) = ")" /\ AllDigit(s, 2, Len(s) - 1)

\* \(\d+,\d+\)
TwoArgs(s) ==
    /\ Len(s) >= 5 /\ Char(s, 1) = "(" /\ Char(s, Len(s)) = ")"
    /\ \E c \in 3..(Len(s) - 2) :
           Char(s, c) = "," /\ AllDigit(s, 2, c - 1) /\ AllDigit(s, c + 1, Len(s) - 1)

\* allowed_types_patterns, in the order of the list: the type name and what
\* may follow it: nothing ("none"), optionally or always one number in
\* parentheses ("opt1", "one"), optionally or always two ("opt2", "two")
allowed_types_patterns ==
    << <<"INT", "opt1">>, <<"VARCHAR", "one">>, <<"CHAR", "one">>, <<"TEXT", "none">>,
       <<"DECIMAL", "two">>, <<"FLOAT", "opt2">>, <<"DOUBLE", "opt2">>,
       <<"DATE", "none">>, <<"DATETIME", "none">>, <<"TIMESTAMP", "none">>,
       <<"BOOLEAN", "none">>, <<"BOOL", "none">>, <<"TINYINT", "opt1">>,
       <<"BIGINT", "opt1">>, <<"MEDIUMTEXT", "none">>, <<"LONGTEXT", "none">> >>

\* the pattern matches the whole of s
FullMatchType(pattern, s) ==
    /\ StartsWith(s, pattern[1])
    /\ LET rest == SubSeq(s, Len(pattern[1]) + 1, Len(s)) IN
       CASE pattern[2] = "none" -> rest = ""
         [] pattern[2] = "one" -> OneArg(rest)
         [] pattern[2] = "opt1" -> rest = "" \/ OneArg(rest)
         [] pattern[2] = "two" -> TwoArgs(rest)
         [] pattern[2] = "opt2" -> rest = "" \/ TwoArgs(rest)

\* re.match(pattern, column_type_upper) for a pattern '^...$'
MatchesTypePattern(pattern, s) == \E body \in DollarBodies(s) : FullMatchType(pattern, body)

\* ddl_operations._validate_column_type: TRUE when it does not raise
_validate_column_type(column_type) ==
    /\ column_type # ""
    /\ LET column_type_upper == Upper(column_type) IN
       \E n \in 1..Len(allowed_types_patterns) :
           MatchesTypePattern(allowed_types_patterns[n], column_type_upper)

allowed_constraints ==
    {"NOT NULL", "NULL", "PRIMARY KEY", "UNIQUE", "AUTO_INCREMENT", "DEFAULT", "CHECK",
     "FOREIGN KEY", "INDEX"}

\* ddl_operations._validate_column_constraints for a list of strings
_validate_column_constraints(constraints) ==
    \A n \in 1..Len(constraints) :
        \E allowed \in allowed_constraints : StartsWith(Upper(constraints[n]), allowed)

\* the grave accent (U+0060) of MySQL quoting; the character cannot be written
\* inside a TLA+ string, so the circumflex, which occurs in no input, stands
\* for it
Backtick == "^"

\* the escaping with double quotes for every dialect
_escape_identifier_double_quotes(identifier, db_type) == "\"" \o identifier \o "\""

\* _escape_identifier, the same function in both modules
_escape_identifier(identifier, db_type) ==
    CASE Lower(db_type) = "mysql" -> Backtick \o identifier \o Backtick
      [] Lower(db_type) = "postgres" -> "\"" \o identifier \o "\""
      [] Lower(db_type) = "mssql" -> "[" \o identifier \o "]"
      [] OTHER -> identifier

_get_parameter_placeholder(db_type) ==
    CASE Lower(db_type) = "mysql" -> "%s"
      [] Lower(db_type) = "postgres" -> "%s"
      [] Lower(db_type) = "mssql" -> "?"
      [] OTHER -> "?"

\* a statement as cursor.execute receives it
Statement(sql, params) == [sql |-> sql, params |-> params]

\* sep.join(strings)
RECURSIVE Join(_, _)
Join(strings, sep) ==
    IF Len(strings) = 0 THEN ""
    ELSE IF Len(strings) = 1 THEN strings[1]
    ELSE strings[1] \o sep \o Join(Tail(strings), sep)

-----------------------------------------------------------------------------
(* tools/ddl_operations.py: validation and SQL generation.  A column spec   *)
(* is a record that may lack fields, as the dictionary may lack keys.       *)

Has(dict, key) == key \in DOMAIN dict

\* _validate_table_creation: TRUE when it does not raise
_validate_table_creation(table_name, columns) ==
    /\ ddl_validate_table_name(table_name)
    /\ Len(columns) > 0
    /\ \A n \in 1..Len(columns) :
           LET col == columns[n] IN
           /\ Has(col, "name") /\ Has(col, "type")
           /\ ddl_validate_column_name(col.name)
           /\ _validate_column_type(col.type)
           /\ Has(col, "constraints") => _validate_column_constraints(col.constraints)

allowed_operations == {"ADD_COLUMN", "DROP_COLUMN", "MODIFY_COLUMN", "RENAME_COLUMN"}

\* _validate_table_alteration: TRUE when it does not raise
_validate_table_alteration(table_name, operation, column_spec) ==
    /\ ddl_validate_table_name(table_name)
    /\ operation \in allowed_operations
    /\ Has(column_spec, "name")
    /\ ddl_validate_column_name(column_spec.name)
    /\ operation \in {"ADD_COLUMN", "MODIFY_COLUMN"} => Has(column_spec, "type")

\* the column definition of _generate_create_table_sql, lines 302-305
ColumnDefinition(col, db_type) ==
    _escape_identifier(col.name, db_type) \o " " \o col.type
    \o (IF Has(col, "constraints") THEN " " \o Join(col.constraints, " ") ELSE "")

_generate_create_table_sql(db_type, table_name, columns, options) ==
    "CREATE TABLE"
    \o (IF Get(options, "if_not_exists") # "" THEN " IF NOT EXISTS" ELSE "")
    \o " " \o _escape_identifier(table_name, db_type) \o " (\n  "
    \o Join([n \in 1..Len(columns) |-> ColumnDefinition(columns[n], db_type)], ",\n  ")
    \o "\n)"
    \o (IF Lower(db_type) = "mysql" /\ Get(options, "engine") # ""
        THEN " ENGINE=" \o options["engine"] ELSE "")
    \o (IF Lower(db_type) = "mysql" /\ Get(options, "charset") # ""
        THEN " CHARACTER SET " \o options["charset"] ELSE "")

\* _generate_alter_table_sql raises KeyError when it reads column_spec['type']
\* and the key is missing
AlterNeedsType(db_type, operation) ==
    \/ operation \in {"ADD_COLUMN", "MODIFY_COLUMN"}
    \/ operation = "RENAME_COLUMN" /\ Lower(db_type) = "mysql"

_generate_alter_table_sql(db_type, table_name, operation, column_spec) ==
    LET escaped_table == _escape_identifier(table_name, db_type)
        escaped_column == _escape_identifier(column_spec.name, db_type)
        new_name == _escape_identifier(Get(column_spec, "new_name"), db_type)
    IN "ALTER TABLE " \o escaped_table \o
       (CASE operation = "ADD_COLUMN" ->
                " ADD COLUMN " \o escaped_column \o " " \o column_spec.type
                \o (IF Has(column_spec, "constraints")
                    THEN " " \o Join(column_spec.constraints, " ") ELSE "")
                \o (IF Has(column_spec, "position") /\ Lower(db_type) = "mysql"
                    THEN " " \o column_spec.position ELSE "")
          [] operation = "DROP_COLUMN" -> " DROP COLUMN " \o escaped_column
          [] operation = "MODIFY_COLUMN" ->
                IF Lower(db_type) = "mysql"
                THEN " MODIFY COLUMN " \o escaped_column \o " " \o column_spec.type
                ELSE " ALTER COLUMN " \o escaped_column \o " TYPE " \o column_spec.type
          [] operation = "RENAME_COLUMN" ->
                IF Lower(db_type) = "mysql"
                THEN " CHANGE COLUMN " \o escaped_column \o " " \o new_name \o " "
                     \o column_spec.type
                ELSE " RENAME COLUMN " \o escaped_column \o " TO " \o new_name
          [] OTHER -> "")

_generate_drop_table_sql(db_type, table_name, if_exists) ==
    "DROP TABLE" \o (IF if_exists THEN " IF EXISTS" ELSE "")
    \o " " \o _escape_identifier(table_name, db_type)

\* drop_table, line 155
DropConfirmation(table_name) == "DELETE_TABLE_" \o table_name

-----------------------------------------------------------------------------
(* tools/dml_operations.py: validation, confirmation and SQL generation.    *)
(* A data value is a Python int or a Python str; set_values and              *)
(* where_conditions are dictionaries in insertion order: sequences of        *)
(* <<key, value>> with distinct keys.                                        *)

IntValue(n) == [type |-> "int", num |-> n, text |-> ""]

StrValue(s) == [type |-> "str", num |-> 0, text |-> s]

\* str(n) for an int
RECURSIVE IntToStr(_)
IntToStr(n) ==
    IF n < 0 THEN "-" \o IntToStr(0 - n)
    ELSE IF n < 10 THEN SubSeq(Digits, n + 1, n + 1)
    ELSE IntToStr(n \div 10) \o SubSeq(Digits, (n % 10) + 1, (n % 10) + 1)

\* str(value), as the f-string of _generate_delete_confirmation formats it
StrOf(value) == IF value.type = "int" THEN IntToStr(value.num) ELSE value.text

Keys(dict) == [n \in 1..Len(dict) |-> dict[n][1]]

Values(dict) == [n \in 1..Len(dict) |-> dict[n][2]]

\* lit1\s+lit2 (gap = 1) or lit1\s*lit2 (gap = 0), searched in v
SearchSpaced(v, lit1, lit2, gap) ==
    \E i \in 1..Len(v) :
        /\ HasAt(v, lit1, i)
        /\ \E j \in (i + Len(lit1) + gap)..Len(v) :
               AllSpace(v, i + Len(lit1), j - 1) /\ HasAt(v, lit2, j)

\* '\s*word\s*'.*'
SearchQuoted(v, word) ==
    \E i \in 1..Len(v) :
        /\ Char(v, i) = "'"
        /\ \E a \in (i + 1)..Len(v) :
               /\ AllSpace(v, i + 1, a - 1) /\ HasAt(v, word, a)
               /\ \E b \in (a + Len(word))..Len(v) :
                      /\ AllSpace(v, a + Len(word), b - 1) /\ Char(v, b) = "'"
                      /\ \E c \in (b + 1)..Len(v) :
                             Char(v, c) = "'" /\ NoNewline(v, b + 1, c - 1)

\* the suspicious_patterns (by 1-based position in the list) found in
\* value.lower()
SuspiciousPatterns(value) ==
    LET v == Lower(value) IN
    {n \in 1..11 :
        CASE n = 1 -> \E i \in 1..Len(v) :
                         /\ HasAt(v, "';", i)
                         /\ \E j \in (i + 2)..Len(v) :
                                HasAt(v, "--", j) /\ NoNewline(v, i + 2, j - 1)
          [] n = 2 -> SearchQuoted(v, "or")
          [] n = 3 -> SearchQuoted(v, "and")
          [] n = 4 -> SearchSpaced(v, "union", "select", 1)
          [] n = 5 -> SearchSpaced(v, "drop", "table", 1)
          [] n = 6 -> SearchSpaced(v, "delete", "from", 1)
          [] n = 7 -> SearchSpaced(v, "insert", "into", 1)
          [] n = 8 -> \E i \in 1..Len(v) :
                         /\ HasAt(v, "update", i)
                         /\ \E a \in (i + 7)..Len(v), b \in (i + 8)..Len(v) :
                                /\ a < b
                                /\ AllSpace(v, i + 6, a - 1) /\ AllWord(v, a, b - 1)
                                /\ \E c \in (b + 1)..Len(v) :
                                       AllSpace(v, b, c - 1) /\ HasAt(v, "set", c)
          [] n = 9 -> SearchSpaced(v, "exec", "(", 0)
          [] n = 10 -> \E i \in 1..Len(v) : HasAt(v, "@@", i) /\ IsWord(Char(v, i + 2))
          [] n = 11 -> \E i \in 1..Len(v) : HasAt(v, "xp_", i) /\ IsWord(Char(v, i + 3))}

\* _validate_parameter_values: TRUE when it does not raise
_validate_parameter_values(values) ==
    \A n \in 1..Len(values) :
        values[n][2].type = "str" => SuspiciousPatterns(values[n][2].text) = {}

\* the validation without the test of where_conditions
_validate_dml_operation_any_where(table_name, set_values, where_conditions, operation) ==
    /\ dml_validate_table_name(table_name)
    /\ operation = "UPDATE" => Len(set_values) > 0
    /\ \A n \in 1..Len(set_values) : dml_validate_column_name(set_values[n][1])
    /\ \A n \in 1..Len(where_conditions) : dml_validate_column_name(where_conditions[n][1])
    /\ _validate_parameter_values(set_values)
    /\ _validate_parameter_values(where_conditions)

\* _validate_dml_operation: TRUE when it does not raise
_validate_dml_operation(table_name, set_values, where_conditions, operation) ==
    /\ dml_validate_table_name(table_name)
    /\ operation = "UPDATE" => Len(set_values) > 0
    /\ Len(where_conditions) > 0
    /\ \A n \in 1..Len(set_values) : dml_validate_column_name(set_values[n][1])
    /\ \A n \in 1..Len(where_conditions) : dml_validate_column_name(where_conditions[n][1])
    /\ _validate_parameter_values(set_values)
    /\ _validate_parameter_values(where_conditions)

\* the clauses with the value written into the text
Clauses_inline(db_type, dict) ==
    [n \in 1..Len(dict) |->
        _escape_identifier(dict[n][1], db_type) \o " = '" \o StrOf(dict[n][2]) \o "'"]

\* the clauses "<escaped key> = <placeholder>" of a dictionary
Clauses(db_type, dict) ==
    [n \in 1..Len(dict) |->
        _escape_identifier(dict[n][1], db_type) \o " = " \o _get_parameter_placeholder(db_type)]

\* the UPDATE statement with the parameters of WHERE before those of SET
_generate_update_sql_where_first(db_type, table_name, set_values, where_conditions) ==
    Statement("UPDATE " \o _escape_identifier(table_name, db_type)
              \o " SET " \o Join(Clauses(db_type, set_values), ", ")
              \o " WHERE " \o Join(Clauses(db_type, where_conditions), " AND "),
              Values(where_conditions) \o Values(set_values))

_generate_update_sql(db_type, table_name, set_values, where_conditions) ==
    Statement("UPDATE " \o _escape_identifier(table_name, db_type)
              \o " SET " \o Join(Clauses(db_type, set_values), ", ")
              \o " WHERE " \o Join(Clauses(db_type, where_conditions), " AND "),
              Values(set_values) \o Values(where_conditions))

_generate_delete_sql(db_type, table_name, where_conditions) ==
    Statement("DELETE FROM " \o _escape_identifier(table_name, db_type)
              \o " WHERE " \o Join(Clauses(db_type, where_conditions), " AND "),
              Values(where_conditions))

\* the count statement built from the first condition alone
_generate_count_sql_first_condition(db_type, table_name, where_conditions) ==
    Statement("SELECT COUNT(*) FROM " \o _escape_identifier(table_name, db_type)
              \o " WHERE " \o Join(Clauses(db_type, SubSeq(where_conditions, 1, 1)), " AND "),
              Values(SubSeq(where_conditions, 1, 1)))

_generate_count_sql(db_type, table_name, where_conditions) ==
    Statement("SELECT COUNT(*) FROM " \o _escape_identifier(table_name, db_type)
              \o " WHERE " \o Join(Clauses(db_type, where_conditions), " AND "),
              Values(where_conditions))

_generate_delete_confirmation(table_name, where_conditions) ==
    "DELETE_FROM_" \o table_name \o "_WHERE_"
    \o Join([n \in 1..Len(where_conditions) |->
                where_conditions[n][1] \o "_" \o StrOf(where_conditions[n][2])], "_")

\* a record of bulk_insert: a dictionary (items, in insertion order), or a
\* value that is not a dictionary
Record(items) == [mapping |-> TRUE, items |-> items]

NotMapping == [mapping |-> FALSE, items |-> <<>>]

\* set(record.keys())
KeysOf(record) == {record.items[n][1] : n \in 1..Len(record.items)}

\* record[col]
Item(record, col) ==
    record.items[CHOOSE n \in 1..Len(record.items) : record.items[n][1] = col][2]

\* the validation with every record compared with itself
_validate_bulk_records_any_keys(records) ==
    IF records = <<>> THEN ""
    ELSE IF ~records[1].mapping THEN "AttributeError"
    ELSE IF \A i \in 1..Len(records) :
               /\ records[i].mapping
               /\ \A n \in 1..Len(records[i].items) :
                      dml_validate_column_name(records[i].items[n][1])
               /\ _validate_parameter_values(records[i].items)
    THEN ""
    ELSE "DMLSecurityError"

\* _validate_bulk_records: the error it raises, "" when it raises none;
\* records[0].keys() raises AttributeError when records[0] is no dictionary
_validate_bulk_records(records) ==
    IF records = <<>> THEN ""
    ELSE IF ~records[1].mapping THEN "AttributeError"
    ELSE IF \A i \in 1..Len(records) :
               /\ records[i].mapping
               /\ KeysOf(records[i]) = KeysOf(records[1])
               /\ \A n \in 1..Len(records[i].items) :
                      dml_validate_column_name(records[i].items[n][1])
               /\ _validate_parameter_values(records[i].items)
    THEN ""
    ELSE "DMLSecurityError"

\* the concatenation of a sequence of sequences
RECURSIVE Concat(_)
Concat(seqs) == IF seqs = <<>> THEN <<>> ELSE Head(seqs) \o Concat(Tail(seqs))

\* the statement with the values of each record in the key order of that
\* record
_generate_bulk_insert_sql_own_order(db_type, table_name, records) ==
    LET columns == Keys(records[1].items)
        row_placeholders == [n \in 1..Len(columns) |-> _get_parameter_placeholder(db_type)]
        value_placeholders ==
            [i \in 1..Len(records) |-> "(" \o Join(row_placeholders, ", ") \o ")"]
    IN  Statement("INSERT INTO " \o _escape_identifier(table_name, db_type)
                  \o " (" \o Join([n \in 1..Len(columns) |->
                                      _escape_identifier(columns[n], db_type)], ", ")
                  \o ") VALUES " \o Join(value_placeholders, ", "),
                  Concat([i \in 1..Len(records) |-> Values(records[i].items)]))

\* _generate_bulk_insert_sql for a batch that is not empty
_generate_bulk_insert_sql(db_type, table_name, records) ==
    LET columns == Keys(records[1].items)
        row_placeholders == [n \in 1..Len(columns) |-> _get_parameter_placeholder(db_type)]
        value_placeholders ==
            [i \in 1..Len(records) |-> "(" \o Join(row_placeholders, ", ") \o ")"]
    IN  Statement("INSERT INTO " \o _escape_identifier(table_name, db_type)
                  \o " (" \o Join([n \in 1..Len(columns) |->
                                      _escape_identifier(columns[n], db_type)], ", ")
                  \o ") VALUES " \o Join(value_placeholders, ", "),
                  Concat([i \in 1..Len(records) |->
                             [n \in 1..Len(columns) |-> Item(records[i], columns[n])]]))

\* range(0, n, step) for step /= 0, as the set of its members
Range(n, step) == {i \in 0..(n - 1) : step > 0 /\ i % step = 0}

\* a // b of Python for b /= 0
FloorDiv(a, b) == IF b > 0 THEN a \div b ELSE (0 - a) \div (0 - b)

-----------------------------------------------------------------------------
(* Inputs                                                                   *)

\* most parts a query text is put together from
MaxParts == 2

\* keywords in several letter cases, separators, comment delimiters, whole
\* comments, and an empty block comment between two dashes and inside a word
QueryParts ==
    {"SELECT 1", "with", "dRoP", "union", "show", " ", "\n", ";", "--", "/*", "*/",
     "--dRoP", "/*dRoP*/", "-/**/-dRoP", " dR/**/oP", "--union", " insert"}

RECURSIVE QueriesOf(_)
QueriesOf(n) ==
    IF n = 0 THEN {""}
    ELSE LET shorter == QueriesOf(n - 1)
         IN shorter \cup {q \o part : q \in shorter, part \in QueryParts}

Queries == QueriesOf(MaxParts)

FullParams == [k \in ConnectKeys |-> "v"]

\* parameters under the alias keys, with db and dbname both given
AliasParams ==
    [host |-> "h", db |-> "d", dbname |-> "n", user |-> "v", password |-> "v"]

\* parameters that name no server and no database
UserParams == [user |-> "v", password |-> "v"]

\* parameters whose server is empty beside a host
EmptyServerParams ==
    [server |-> "", host |-> "h", database |-> "d", user |-> "v", password |-> "v"]

\* what get_db_config finds in the environment
EnvConfigs == {EmptyDict, FullParams}

\* (db_type, conn_params) of the requests
Targets ==
    {<<"postgres", UserParams>>, <<"mysql", FullParams>>, <<"mssql", AliasParams>>,
     <<"oracle", EmptyDict>>, <<"mysql", EmptyServerParams>>}

\* most columns of a create_table request
MaxColumns == 2

\* most entries of a set_values or where_conditions dictionary
MaxPairs == 2

\* most rows the pre-count of update_records and delete_records finds
MaxCount == 2

TableNames == {"users", "admin", "x; DROP TABLE y", "users\n"}

ColumnSpecs ==
    {[name |-> "id", type |-> "INT", constraints |-> <<"PRIMARY KEY">>],
     [name |-> "nm", type |-> "varchar(9)"],
     [name |-> "id", type |-> "INT\n"],
     [name |-> "id", type |-> "INT; DROP TABLE y"],
     [name |-> "id", type |-> "INT", constraints |-> <<"DROP TABLE y">>],
     [name |-> "a b", type |-> "INT"],
     [type |-> "INT"]}

RECURSIVE SeqsUpTo(_, _)
SeqsUpTo(S, n) ==
    IF n = 0 THEN {<<>>}
    ELSE LET shorter == SeqsUpTo(S, n - 1)
         IN shorter \cup {Append(seq, x) : seq \in shorter, x \in S}

CreateOptions == {EmptyDict, [if_not_exists |-> "true"], [engine |-> "InnoDB"]}

AlterOperations == allowed_operations \cup {"TRUNCATE"}

AlterSpecs ==
    {[name |-> "c", type |-> "INT"],
     [name |-> "c"],
     [name |-> "c", new_name |-> "d"],
     [name |-> "c", new_name |-> "d; DROP TABLE y", type |-> "TEXT"],
     [name |-> "c", type |-> "INT; DROP TABLE y", constraints |-> <<"x">>,
      position |-> "AFTER y"],
     [name |-> "a b", type |-> "INT"],
     [type |-> "INT"]}

DropConfirmations ==
    {DropConfirmation(table_name) : table_name \in TableNames}
    \cup {"", "delete_table_users"}

\* (column, value) entries of set_values and where_conditions
Pairs ==
    {<<"id", IntValue(1)>>, <<"id", StrValue("1")>>, <<"nm", StrValue("x")>>,
     <<"nm", StrValue("' or '1'='1")>>, <<"a;b", IntValue(2)>>}

\* a dictionary has no key twice
Dicts ==
    {dict \in SeqsUpTo(Pairs, MaxPairs) :
        \A i, j \in 1..Len(dict) : dict[i][1] = dict[j][1] => i = j}

SafetyLimits == {0, 1}

\* params.get("safety_limit", 1000) of update_records
UpdateDefaultLimit == 1000

\* params.get("safety_limit", 100) of delete_records
DeleteDefaultLimit == 100

\* the safety_limit entry of a request: none (<<>>) or one limit
OptionalLimits == {<<>>} \cup {<<limit>> : limit \in SafetyLimits}

\* what the pre-count can find: few rows, or a number of rows at a default
\* limit or one above it
Counts ==
    0..MaxCount \cup {DeleteDefaultLimit, DeleteDefaultLimit + 1,
                      UpdateDefaultLimit, UpdateDefaultLimit + 1}

\* the where_conditions entry of a request: none (<<>>) or one dictionary
OptionalDicts == {<<>>} \cup {<<dict>> : dict \in Dicts}

\* a request dictionary with the optional entry, when there is one
WithOptional(params, key, optional) ==
    IF optional = <<>> THEN params ELSE Put(params, key, optional[1])

\* the records of bulk_insert: two with the same keys in a different order,
\* one with fewer keys, and a value that is no dictionary
BulkRecords ==
    {Record(<<<<"id", IntValue(1)>>, <<"nm", StrValue("x")>>>>),
     Record(<<<<"nm", StrValue("y")>>, <<"id", IntValue(2)>>>>),
     Record(<<<<"id", IntValue(3)>>>>),
     Record(<<<<"id", StrValue("3; drop table y")>>>>),
     NotMapping}

MaxRecords == 3

\* len(records) > 10000 is refused
MaxBulkRecords == 10000

BatchSizes == {-1, 0, 1, 2}

\* params.get("batch_size", 100)
DefaultBatchSize == 100

\* the batch_size entry of a request: none (<<>>) or one size
OptionalBatchSizes == {<<>>} \cup {<<size>> : size \in BatchSizes}

\* the confirmations a caller holds for a table: none, or one issued for some
\* where_conditions
DeleteConfirmations(table_name) ==
    {""} \cup {_generate_delete_confirmation(table_name, dict) :
                  dict \in {d \in Dicts : Len(d) <= 1}}

-----------------------------------------------------------------------------
(* State                                                                    *)

NoVerdict == Verdict(FALSE, "")

NoStatement == Statement("", <<>>)

\* the local variables of the handlers: the verdict of the classifier, the
\* connection parameters in use, the parameters of the adapter instance db,
\* the statement built, the pre-count, the cursor.rowcount of the mutating
\* statement, and of bulk_insert the loop index i, total_inserted and the
\* batches_processed it reports
Loc0 ==
    [verdict |-> NoVerdict, conn_params |-> EmptyDict, db |-> EmptyDict, sql |-> NoStatement,
     affected_count |-> 0, affected_rows |-> 0, i |-> 0, total_inserted |-> 0, batches_processed |-> 0]

NoResult == [kind |-> "none", error |-> "", message |-> "", detail |-> ""]

Return(detail) == [kind |-> "return", error |-> "", message |-> "", detail |-> detail]

Raise(error) == [kind |-> "raise", error |-> error, message |-> "", detail |-> ""]

\* the security error drop_table and delete_records raise for a confirmation
\* that is not the expected one
ConfirmationError(error) ==
    [Raise(error) EXCEPT !.message = "Confirmacao de seguranca incorreta"]

\* the security error update_records and delete_records raise when the
\* pre-count is above the safety limit
SafetyLimitError ==
    [Raise("DMLSecurityError") EXCEPT !.message = "Operacao cancelada"]

\* the dictionary execute_query returns for a rejected query
SecurityRejection(message, query) ==
    [kind |-> "return", error |-> "SEGURANCA_SQL", message |-> message, detail |-> query]

Idle ==
    /\ pc = "idle" /\ op = "none" /\ req = EmptyDict /\ loc = Loc0
    /\ result = NoResult /\ conns = 0 /\ open = 0 /\ sent = <<>> /\ committed = <<>>

-----------------------------------------------------------------------------
(* SQLSecurityValidator.validate_query called directly (security_check,     *)
(* get_security_report, the tests)                                          *)

CallValidateQuery ==
    /\ pc = "idle"
    /\ \E query \in Queries, allow_modifications \in BOOLEAN :
           /\ op' = "validate_query"
           /\ req' = [query |-> query, allow_modifications |-> allow_modifications]
    /\ pc' = "validate"
    /\ UNCHANGED <<loc, result, conns, committed, open, sent>>

ValidateQuery ==
    /\ op = "validate_query" /\ pc = "validate"
    /\ loc' = [loc EXCEPT !.verdict = validate_query(req.query, req.allow_modifications)]
    /\ result' = Return("verdict")
    /\ pc' = "done"
    /\ UNCHANGED <<op, req, conns, committed, open, sent>>

-----------------------------------------------------------------------------
(* tools/execute_query.py: execute_query, with db.execute_query of the      *)
(* adapter classes                                                          *)

CallExecuteQuery ==
    /\ pc = "idle"
    /\ \E query \in Queries, target \in Targets :
           /\ op' = "execute_query"
           /\ req' = [db_type |-> target[1], conn_params |-> target[2], query |-> query]
    /\ pc' = "validate"
    /\ UNCHANGED <<loc, result, conns, committed, open, sent>>

\* lines 32-44: validate_sql_security(query, allow_modifications=False)
ExecuteQueryValidate ==
    /\ op = "execute_query" /\ pc = "validate"
    /\ LET verdict == validate_sql_security(req.query, FALSE) IN
       /\ loc' = [loc EXCEPT !.verdict = verdict]
       /\ IF verdict.is_safe
          THEN pc' = "ensure" /\ UNCHANGED result
          ELSE pc' = "done" /\ result' = SecurityRejection(verdict.message, req.query)
    /\ UNCHANGED <<op, req, conns, committed, open, sent>>

\* line 47: ensure_valid_conn_params(db_type, conn_params)
ExecuteQueryEnsureConn ==
    /\ op = "execute_query" /\ pc = "ensure"
    /\ \E env_params \in EnvConfigs :
           LET conn_params == ensure_valid_conn_params(req.conn_params, env_params) IN
           IF conn_params = EmptyDict
           THEN pc' = "done" /\ result' = Raise("ValueError") /\ UNCHANGED loc
           ELSE /\ pc' = "get_db" /\ loc' = [loc EXCEPT !.conn_params = conn_params]
                /\ UNCHANGED result
    /\ UNCHANGED <<op, req, conns, committed, open, sent>>

\* line 51: get_db(db_type, conn_params)
ExecuteQueryGetDb ==
    /\ op = "execute_query" /\ pc = "get_db"
    /\ LET db == get_db(req.db_type, loc.conn_params) IN
       IF db.ok
       THEN pc' = "db_validate" /\ loc' = [loc EXCEPT !.db = db.conn_params]
            /\ UNCHANGED result
       ELSE pc' = "done" /\ result' = Raise("ValueError") /\ UNCHANGED loc
    /\ UNCHANGED <<op, req, conns, committed, open, sent>>

\* db.execute_query: the adapter validates the query again; execute_query
\* turns its SQLSecurityError into the rejection dictionary (lines 57-66)
AdapterValidate ==
    /\ op = "execute_query" /\ pc = "db_validate"
    /\ LET verdict == validate_sql_security(req.query, FALSE) IN
       IF verdict.is_safe
       THEN pc' = "connect" /\ UNCHANGED result
       ELSE pc' = "done" /\ result' = SecurityRejection(verdict.message, req.query)
    /\ UNCHANGED <<op, req, loc, conns, committed, open, sent>>

\* conn = self._connect(): the driver connects or raises
AdapterConnect ==
    /\ op = "execute_query" /\ pc = "connect"
    /\ \/ /\ ConnectKeys \subseteq DOMAIN loc.db
          /\ conns' = conns + 1 /\ open' = open + 1 /\ UNCHANGED committed
          /\ pc' = "execute" /\ UNCHANGED result
       \/ /\ pc' = "done" /\ result' = Raise("AdapterError")
          /\ UNCHANGED <<conns, committed, open>>
    /\ UNCHANGED <<op, req, loc, sent>>

\* cursor.execute(query): the statement reaches the database, which runs it
\* or raises
AdapterExecute ==
    /\ op = "execute_query" /\ pc = "execute"
    /\ sent' = Append(sent, Statement(req.query, <<>>))
    /\ \/ pc' = "close" /\ UNCHANGED result
       \/ pc' = "done" /\ result' = Raise("AdapterError")
    /\ UNCHANGED <<op, req, loc, conns, committed, open>>

\* rows = cursor.fetchall(); conn.close(); return rows.  MSSQLDB leaves its
\* with-block instead of calling close()
AdapterClose ==
    /\ op = "execute_query" /\ pc = "close"
    /\ open' = IF req.db_type = "mssql" THEN open ELSE open - 1
    /\ pc' = "done" /\ result' = Return("rows")
    /\ UNCHANGED <<op, req, loc, conns, committed, sent>>

InitQuery == Idle

NextQuery ==
    \/ CallValidateQuery
    \/ ValidateQuery
    \/ CallExecuteQuery
    \/ ExecuteQueryValidate
    \/ ExecuteQueryEnsureConn
    \/ ExecuteQueryGetDb
    \/ AdapterValidate
    \/ AdapterConnect
    \/ AdapterExecute
    \/ AdapterClose

SpecQuery == InitQuery /\ [][NextQuery]_vars

-----------------------------------------------------------------------------
(* tools/ddl_operations.py and tools/dml_operations.py: create_table,       *)
(* alter_table, drop_table, update_records, delete_records                  *)

DdlTools == {"create_table", "alter_table", "drop_table"}

\* if confirmation != expected_confirmation
ConfirmationMismatch_ignoring_case(confirmation, expected_confirmation) ==
    Lower(confirmation) # Lower(expected_confirmation)

\* if confirmation != expected_confirmation (drop_table line 156,
\* delete_records line 115)
ConfirmationMismatch(confirmation, expected_confirmation) ==
    confirmation # expected_confirmation

DmlTools == {"update_records", "delete_records"}

CallCreateTable ==
    /\ pc = "idle"
    /\ \E target \in Targets, table_name \in TableNames,
          columns \in SeqsUpTo(ColumnSpecs, MaxColumns), options \in CreateOptions :
           /\ op' = "create_table"
           /\ req' = [db_type |-> target[1], conn_params |-> target[2],
                      table_name |-> table_name, columns |-> columns,
                      options |-> options]
    /\ pc' = "validate"
    /\ UNCHANGED <<loc, result, conns, committed, open, sent>>

\* line 48: _validate_table_creation(table_name, columns, options)
CreateTableValidate ==
    /\ op = "create_table" /\ pc = "validate"
    /\ IF _validate_table_creation(req.table_name, req.columns)
       THEN pc' = "ensure" /\ UNCHANGED result
       ELSE pc' = "done" /\ result' = Raise("DDLSecurityError")
    /\ UNCHANGED <<op, req, loc, conns, committed, open, sent>>

\* line 54: _generate_create_table_sql(db_type, table_name, columns, options)
CreateTableGenerate ==
    /\ op = "create_table" /\ pc = "generate"
    /\ loc' = [loc EXCEPT !.sql =
                  Statement(_generate_create_table_sql(req.db_type, req.table_name,
                                                       req.columns, req.options), <<>>)]
    /\ pc' = "get_db"
    /\ UNCHANGED <<op, req, result, conns, committed, open, sent>>

CallAlterTable ==
    /\ pc = "idle"
    /\ \E target \in Targets, table_name \in TableNames,
          operation \in AlterOperations, column_spec \in AlterSpecs :
           /\ op' = "alter_table"
           /\ req' = [db_type |-> target[1], conn_params |-> target[2],
                      table_name |-> table_name, operation |-> operation,
                      column_spec |-> column_spec]
    /\ pc' = "validate"
    /\ UNCHANGED <<loc, result, conns, committed, open, sent>>

\* line 104: _validate_table_alteration(table_name, operation, column_spec)
AlterTableValidate ==
    /\ op = "alter_table" /\ pc = "validate"
    /\ IF _validate_table_alteration(req.table_name, req.operation, req.column_spec)
       THEN pc' = "ensure" /\ UNCHANGED result
       ELSE pc' = "done" /\ result' = Raise("DDLSecurityError")
    /\ UNCHANGED <<op, req, loc, conns, committed, open, sent>>

\* line 110: _generate_alter_table_sql(db_type, table_name, operation, column_spec)
AlterTableGenerate ==
    /\ op = "alter_table" /\ pc = "generate"
    /\ IF AlterNeedsType(req.db_type, req.operation) /\ ~Has(req.column_spec, "type")
       THEN pc' = "done" /\ result' = Raise("KeyError") /\ UNCHANGED loc
       ELSE /\ loc' = [loc EXCEPT !.sql =
                          Statement(_generate_alter_table_sql(req.db_type, req.table_name,
                                        req.operation, req.column_spec), <<>>)]
            /\ pc' = "get_db" /\ UNCHANGED result
    /\ UNCHANGED <<op, req, conns, committed, open, sent>>

CallDropTable ==
    /\ pc = "idle"
    /\ \E target \in Targets, table_name \in TableNames,
          confirmation \in DropConfirmations, if_exists \in BOOLEAN :
           /\ op' = "drop_table"
           /\ req' = [db_type |-> target[1], conn_params |-> target[2],
                      table_name |-> table_name, confirmation |-> confirmation,
                      if_exists |-> if_exists]
    /\ pc' = "confirm"
    /\ UNCHANGED <<loc, result, conns, committed, open, sent>>

\* lines 155-157: the confirmation is compared with the expected one
DropTableConfirm ==
    /\ op = "drop_table" /\ pc = "confirm"
    /\ IF ConfirmationMismatch(req.confirmation, DropConfirmation(req.table_name))
       THEN pc' = "done" /\ result' = ConfirmationError("DDLSecurityError")
       ELSE pc' = "validate" /\ UNCHANGED result
    /\ UNCHANGED <<op, req, loc, conns, committed, open, sent>>

\* line 159: _validate_table_name(table_name)
DropTableValidate ==
    /\ op = "drop_table" /\ pc = "validate"
    /\ IF ddl_validate_table_name(req.table_name)
       THEN pc' = "ensure" /\ UNCHANGED result
       ELSE pc' = "done" /\ result' = Raise("DDLSecurityError")
    /\ UNCHANGED <<op, req, loc, conns, committed, open, sent>>

\* line 165: _generate_drop_table_sql(db_type, table_name, if_exists)
DropTableGenerate ==
    /\ op = "drop_table" /\ pc = "generate"
    /\ loc' = [loc EXCEPT !.sql =
                  Statement(_generate_drop_table_sql(req.db_type, req.table_name,
                                                     req.if_exists), <<>>)]
    /\ pc' = "get_db"
    /\ UNCHANGED <<op, req, result, conns, committed, open, sent>>

CallUpdateRecords ==
    /\ pc = "idle"
    /\ \E target \in Targets, table_name \in TableNames, set_values \in Dicts,
          where_conditions \in OptionalDicts, safety_limit \in OptionalLimits :
           /\ op' = "update_records"
           /\ req' = WithOptional(
                         WithOptional(
                             [db_type |-> target[1], conn_params |-> target[2],
                              table_name |-> table_name, set_values |-> set_values],
                             "where_conditions", where_conditions),
                         "safety_limit", safety_limit)
    /\ pc' = "validate"
    /\ UNCHANGED <<loc, result, conns, committed, open, sent>>

\* line 45: params["where_conditions"] raises KeyError for a missing entry;
\* line 49: _validate_dml_operation(table_name, set_values, where_conditions, "UPDATE")
UpdateRecordsValidate ==
    /\ op = "update_records" /\ pc = "validate"
    /\ IF ~Has(req, "where_conditions")
       THEN pc' = "done" /\ result' = Raise("KeyError")
       ELSE IF _validate_dml_operation(req.table_name, req.set_values,
                                       req.where_conditions, "UPDATE")
       THEN pc' = "ensure" /\ UNCHANGED result
       ELSE pc' = "done" /\ result' = Raise("DMLSecurityError")
    /\ UNCHANGED <<op, req, loc, conns, committed, open, sent>>

\* line 55: _generate_update_sql(db_type, table_name, set_values, where_conditions)
UpdateRecordsGenerate ==
    /\ op = "update_records" /\ pc = "generate"
    /\ loc' = [loc EXCEPT !.sql =
                  _generate_update_sql(req.db_type, req.table_name, req.set_values,
                                       req.where_conditions)]
    /\ pc' = "get_db"
    /\ UNCHANGED <<op, req, result, conns, committed, open, sent>>

CallDeleteRecords ==
    /\ pc = "idle"
    /\ \E target \in Targets, table_name \in TableNames,
          where_conditions \in OptionalDicts, safety_limit \in OptionalLimits :
           \E confirmation \in DeleteConfirmations(table_name)
                  \cup {_generate_delete_confirmation(table_name, dict) :
                            dict \in {where_conditions[n] : n \in 1..Len(where_conditions)}} :
               /\ op' = "delete_records"
               /\ req' = WithOptional(
                             WithOptional(
                                 [db_type |-> target[1], conn_params |-> target[2],
                                  table_name |-> table_name,
                                  confirmation |-> confirmation],
                                 "where_conditions", where_conditions),
                             "safety_limit", safety_limit)
    /\ pc' = "confirm"
    /\ UNCHANGED <<loc, result, conns, committed, open, sent>>

\* line 109: params["where_conditions"] raises KeyError for a missing entry;
\* lines 114-116: the confirmation is compared with the derived one
DeleteRecordsConfirm ==
    /\ op = "delete_records" /\ pc = "confirm"
    /\ IF ~Has(req, "where_conditions")
       THEN pc' = "done" /\ result' = Raise("KeyError")
       ELSE IF ConfirmationMismatch(req.confirmation,
              _generate_delete_confirmation(req.table_name, req.where_conditions))
       THEN pc' = "done" /\ result' = ConfirmationError("DMLSecurityError")
       ELSE pc' = "validate" /\ UNCHANGED result
    /\ UNCHANGED <<op, req, loc, conns, committed, open, sent>>

\* line 119: _validate_dml_operation(table_name, {}, where_conditions, "DELETE")
DeleteRecordsValidate ==
    /\ op = "delete_records" /\ pc = "validate"
    /\ IF _validate_dml_operation(req.table_name, <<>>, req.where_conditions, "DELETE")
       THEN pc' = "ensure" /\ UNCHANGED result
       ELSE pc' = "done" /\ result' = Raise("DMLSecurityError")
    /\ UNCHANGED <<op, req, loc, conns, committed, open, sent>>

\* line 125: _generate_delete_sql(db_type, table_name, where_conditions)
DeleteRecordsGenerate ==
    /\ op = "delete_records" /\ pc = "generate"
    /\ loc' = [loc EXCEPT !.sql =
                  _generate_delete_sql(req.db_type, req.table_name,
                                       req.where_conditions)]
    /\ pc' = "get_db"
    /\ UNCHANGED <<op, req, result, conns, committed, open, sent>>

CallBulkInsert ==
    /\ pc = "idle"
    /\ \E target \in Targets, table_name \in TableNames,
          records \in SeqsUpTo(BulkRecords, MaxRecords),
          size \in OptionalBatchSizes :
           /\ op' = "bulk_insert"
           /\ req' = WithOptional([db_type |-> target[1], conn_params |-> target[2],
                                   table_name |-> table_name, records |-> records],
                                  "batch_size", size)
    /\ pc' = "validate"
    /\ UNCHANGED <<loc, result, conns, committed, open, sent>>

\* bulk_insert, lines 182-191
BulkInsertValidate ==
    /\ op = "bulk_insert" /\ pc = "validate"
    /\ IF \/ ~dml_validate_table_name(req.table_name)
          \/ req.records = <<>>
          \/ Len(req.records) > MaxBulkRecords
       THEN pc' = "done" /\ result' = Raise("DMLSecurityError")
       ELSE IF _validate_bulk_records(req.records) /= ""
       THEN pc' = "done" /\ result' = Raise(_validate_bulk_records(req.records))
       ELSE pc' = "ensure" /\ UNCHANGED result
    /\ UNCHANGED <<op, req, loc, conns, committed, open, sent>>

\* batch_size = params.get("batch_size", 100), line 179
batch_size == IF Has(req, "batch_size") THEN req.batch_size ELSE DefaultBatchSize

\* records[i:i + batch_size] for i in the range of the loop
Batch(records, i, size) ==
    SubSeq(records, i + 1, IF i + size < Len(records) THEN i + size ELSE Len(records))

\* bulk_insert, lines 202-206 and 214-221: range(0, len(records), 0) raises
\* ValueError; the next batch is cut and its statement built, or the loop is
\* over and the tool returns
BulkInsertNextBatch ==
    /\ op = "bulk_insert" /\ pc = "batch"
    /\ IF batch_size = 0
       THEN pc' = "done" /\ result' = Raise("ValueError") /\ UNCHANGED loc
       ELSE IF loc.i \in Range(Len(req.records), batch_size)
       THEN /\ loc' = [loc EXCEPT !.sql =
                          _generate_bulk_insert_sql(
                              req.db_type, req.table_name,
                              Batch(req.records, loc.i, batch_size))]
            /\ pc' = "dml_connect" /\ UNCHANGED result
       ELSE /\ loc' = [loc EXCEPT !.batches_processed =
                          FloorDiv(Len(req.records) + batch_size - 1, batch_size)]
            /\ pc' = "done" /\ result' = Return("success")
    /\ UNCHANGED <<op, req, conns, committed, open, sent>>

\* ensure_valid_conn_params(db_type, conn_params), the step after validation
\* in each of the six tools
ToolEnsureConn ==
    /\ op \in DdlTools \cup DmlTools \cup {"bulk_insert"} /\ pc = "ensure"
    /\ \E env_params \in EnvConfigs :
           LET conn_params == ensure_valid_conn_params(req.conn_params, env_params) IN
           IF conn_params = EmptyDict
           THEN pc' = "done" /\ result' = Raise("ValueError") /\ UNCHANGED loc
           ELSE /\ pc' = IF op = "bulk_insert" THEN "get_db" ELSE "generate"
                /\ loc' = [loc EXCEPT !.conn_params = conn_params]
                /\ UNCHANGED result
    /\ UNCHANGED <<op, req, conns, committed, open, sent>>

\* db = get_db(db_type, conn_params), the step after the statement is built
\* (in bulk_insert, the step before the loop)
ToolGetDb ==
    /\ op \in DdlTools \cup DmlTools \cup {"bulk_insert"} /\ pc = "get_db"
    /\ LET db == get_db(req.db_type, loc.conn_params) IN
       IF db.ok
       THEN /\ pc' = IF op \in DdlTools THEN "ddl_connect"
                     ELSE IF op \in DmlTools THEN "count_connect" ELSE "batch"
            /\ loc' = [loc EXCEPT !.db = db.conn_params]
            /\ UNCHANGED result
       ELSE pc' = "done" /\ result' = Raise("ValueError") /\ UNCHANGED loc
    /\ UNCHANGED <<op, req, conns, committed, open, sent>>

\* db._connect() of _execute_ddl_safely, _execute_count_query and
\* _execute_dml_safely: the driver connects or raises
Connect(from, to) ==
    /\ pc = from
    /\ \/ /\ ConnectKeys \subseteq DOMAIN loc.db
          /\ conns' = conns + 1 /\ open' = open + 1 /\ UNCHANGED committed
          /\ pc' = to /\ UNCHANGED result
       \/ /\ pc' = "done" /\ result' = Raise("AdapterError")
          /\ UNCHANGED <<conns, committed, open>>
    /\ UNCHANGED <<op, req, loc, sent>>

\* _execute_ddl_safely, line 392
ExecuteDdlConnect == op \in DdlTools /\ Connect("ddl_connect", "ddl_execute")

\* _execute_ddl_safely, line 394: cursor.execute(sql) runs or raises
ExecuteDdlExecute ==
    /\ op \in DdlTools /\ pc = "ddl_execute"
    /\ sent' = Append(sent, loc.sql)
    /\ \/ pc' = "ddl_commit" /\ UNCHANGED result
       \/ pc' = "done" /\ result' = Raise("AdapterError")
    /\ UNCHANGED <<op, req, loc, conns, committed, open>>

\* _execute_ddl_safely, lines 395-400, and the return of the tool:
\* conn.commit() runs and the connection is closed, or it raises
ExecuteDdlCommit ==
    /\ op \in DdlTools /\ pc = "ddl_commit"
    /\ \/ /\ committed' = Append(committed, sent[Len(sent)])
          /\ open' = open - 1 /\ result' = Return("success")
       \/ result' = Raise("AdapterError") /\ UNCHANGED <<open, committed>>
    /\ pc' = "done"
    /\ UNCHANGED <<op, req, loc, conns, sent>>

\* _execute_count_query, line 433
ExecuteCountConnect == op \in DmlTools /\ Connect("count_connect", "count_execute")

\* the count query without conn.close()
ExecuteCountExecute_left_open ==
    /\ op \in DmlTools /\ pc = "count_execute"
    /\ sent' = Append(sent, _generate_count_sql(req.db_type, req.table_name,
                                                req.where_conditions))
    /\ \/ \E count \in Counts :
              /\ loc' = [loc EXCEPT !.affected_count = count]
              /\ pc' = "limit" /\ UNCHANGED <<result, open>>
       \/ pc' = "done" /\ result' = Raise("AdapterError") /\ UNCHANGED <<loc, open>>
    /\ UNCHANGED <<op, req, conns, committed>>

\* _generate_count_sql and _execute_count_query, lines 435-438: the count
\* statement runs and the connection is closed, or the driver raises
ExecuteCountExecute ==
    /\ op \in DmlTools /\ pc = "count_execute"
    /\ sent' = Append(sent, _generate_count_sql(req.db_type, req.table_name,
                                                req.where_conditions))
    /\ \/ \E count \in Counts :
              /\ loc' = [loc EXCEPT !.affected_count = count]
              /\ open' = open - 1
              /\ pc' = "limit" /\ UNCHANGED result
       \/ pc' = "done" /\ result' = Raise("AdapterError") /\ UNCHANGED <<loc, open>>
    /\ UNCHANGED <<op, req, conns, committed>>

\* safety_limit = params.get("safety_limit", 1000) of update_records (line 46),
\* params.get("safety_limit", 100) of delete_records (line 111)
safety_limit ==
    IF Has(req, "safety_limit") THEN req.safety_limit
    ELSE IF op = "update_records" THEN UpdateDefaultLimit ELSE DeleteDefaultLimit

\* the comparison with >= in place of >
CheckSafetyLimit_from_limit ==
    /\ op \in DmlTools /\ pc = "limit"
    /\ IF loc.affected_count >= safety_limit
       THEN pc' = "done" /\ result' = SafetyLimitError
       ELSE pc' = "dml_connect" /\ UNCHANGED result
    /\ UNCHANGED <<op, req, loc, conns, committed, open, sent>>

\* update_records lines 67-68, delete_records lines 136-137
CheckSafetyLimit ==
    /\ op \in DmlTools /\ pc = "limit"
    /\ IF loc.affected_count > safety_limit
       THEN pc' = "done" /\ result' = SafetyLimitError
       ELSE pc' = "dml_connect" /\ UNCHANGED result
    /\ UNCHANGED <<op, req, loc, conns, committed, open, sent>>

\* _execute_dml_safely, line 447
ExecuteDmlConnect ==
    op \in DmlTools \cup {"bulk_insert"} /\ Connect("dml_connect", "dml_execute")

\* the rows an UPDATE or DELETE can change: the rows that match its WHERE
\* clause when it runs, on a connection of its own opened after the
\* connection of the pre-count was closed. Other clients of the database may
\* have changed rows in between, so these are the rows the pre-count found,
\* or fewer, or more
RowCounts == {loc.affected_count} \cup 0..MaxCount

\* _execute_dml_safely, lines 449-450: cursor.execute(sql, params) runs, and
\* cursor.rowcount is the number of rows it changed, or it raises
ExecuteDmlExecute ==
    /\ op \in DmlTools \cup {"bulk_insert"} /\ pc = "dml_execute"
    /\ sent' = Append(sent, loc.sql)
    /\ \/ /\ \E rowcount \in IF op = "bulk_insert"
                            THEN {Len(Batch(req.records, loc.i, batch_size))}
                            ELSE RowCounts :
                 loc' = [loc EXCEPT !.affected_rows = rowcount]
          /\ pc' = "dml_commit" /\ UNCHANGED result
       \/ pc' = "done" /\ result' = Raise("AdapterError") /\ UNCHANGED loc
    /\ UNCHANGED <<op, req, conns, committed, open>>

\* the commit after whose failure bulk_insert goes on with the next batch
ExecuteDmlCommit_goes_on ==
    /\ op \in DmlTools \cup {"bulk_insert"} /\ pc = "dml_commit"
    /\ \/ /\ committed' = Append(committed, sent[Len(sent)])
          /\ open' = open - 1
          /\ IF op = "bulk_insert"
             THEN /\ loc' = [loc EXCEPT
                                !.i = loc.i + batch_size,
                                !.total_inserted = loc.total_inserted
                                    + Len(Batch(req.records, loc.i, batch_size))]
                  /\ pc' = "batch" /\ UNCHANGED result
             ELSE pc' = "done" /\ result' = Return("success") /\ UNCHANGED loc
       \/ /\ IF op = "bulk_insert"
             THEN /\ loc' = [loc EXCEPT !.i = loc.i + batch_size]
                  /\ pc' = "batch" /\ UNCHANGED result
             ELSE pc' = "done" /\ result' = Raise("AdapterError") /\ UNCHANGED loc
          /\ UNCHANGED <<open, committed>>
    /\ UNCHANGED <<op, req, conns, sent>>

\* _execute_dml_safely, lines 450-454: conn.commit() runs and the connection
\* is closed, or it raises; then update_records and delete_records return,
\* bulk_insert (lines 202, 211) counts the batch and goes on with the loop
ExecuteDmlCommit ==
    /\ op \in DmlTools \cup {"bulk_insert"} /\ pc = "dml_commit"
    /\ \/ /\ committed' = Append(committed, sent[Len(sent)])
          /\ open' = open - 1
          /\ IF op = "bulk_insert"
             THEN /\ loc' = [loc EXCEPT
                                !.i = loc.i + batch_size,
                                !.total_inserted = loc.total_inserted
                                    + Len(Batch(req.records, loc.i, batch_size))]
                  /\ pc' = "batch" /\ UNCHANGED result
             ELSE pc' = "done" /\ result' = Return("success") /\ UNCHANGED loc
       \/ /\ pc' = "done" /\ result' = Raise("AdapterError")
          /\ UNCHANGED <<open, loc, committed>>
    /\ UNCHANGED <<op, req, conns, sent>>

InitOps == Idle

NextOps ==
    \/ CallCreateTable
    \/ CreateTableValidate
    \/ CreateTableGenerate
    \/ CallAlterTable
    \/ AlterTableValidate
    \/ AlterTableGenerate
    \/ CallDropTable
    \/ DropTableConfirm
    \/ DropTableValidate
    \/ DropTableGenerate
    \/ CallUpdateRecords
    \/ UpdateRecordsValidate
    \/ UpdateRecordsGenerate
    \/ CallDeleteRecords
    \/ DeleteRecordsConfirm
    \/ DeleteRecordsValidate
    \/ DeleteRecordsGenerate
    \/ CallBulkInsert
    \/ BulkInsertValidate
    \/ BulkInsertNextBatch
    \/ ToolEnsureConn
    \/ ToolGetDb
    \/ ExecuteDdlConnect
    \/ ExecuteDdlExecute
    \/ ExecuteDdlCommit
    \/ ExecuteCountConnect
    \/ ExecuteCountExecute
    \/ CheckSafetyLimit
    \/ ExecuteDmlConnect
    \/ ExecuteDmlExecute
    \/ ExecuteDmlCommit

SpecOps == InitOps /\ [][NextOps]_vars

-----------------------------------------------------------------------------
(* The identifier validators and the column type validator called on their  *)
(* own: _validate_table_name and _validate_column_name of both modules,     *)
(* _validate_column_type                                                    *)

\* most parts a name is put together from
MaxNameParts == 2

NameParts == {"users", "Admin", "sys", "information_schema", "_", "1", "\n", " ", ";"}

RECURSIVE NamesOf(_)
NamesOf(n) ==
    IF n = 0 THEN {""}
    ELSE LET shorter == NamesOf(n - 1)
         IN shorter \cup {name \o part : name \in shorter, part \in NameParts}

Names == NamesOf(MaxNameParts)

\* most characters after the type and its arguments
MaxTail == 1

TypeNames ==
    {allowed_types_patterns[n][1] : n \in 1..Len(allowed_types_patterns)}
    \cup {Lower(allowed_types_patterns[n][1]) : n \in 1..Len(allowed_types_patterns)}
    \cup {"", "JSON"}

TypeArguments == {"", "(1)", "(12)", "(1,2)", "()", "(1,)", "(x)"}

TailChars == {"\n", " ", ";", "x"}

RECURSIVE TailsOf(_)
TailsOf(n) ==
    IF n = 0 THEN {""}
    ELSE LET shorter == TailsOf(n - 1)
         IN shorter \cup {tail \o c : tail \in shorter, c \in TailChars}

ColumnTypes ==
    {name \o arguments \o tail :
        name \in TypeNames, arguments \in TypeArguments, tail \in TailsOf(MaxTail)}

Accept == Return("accepted")

CheckDdlTableName ==
    /\ pc = "idle"
    /\ \E name \in Names :
           /\ op' = "ddl_validate_table_name" /\ req' = [name |-> name]
           /\ result' = IF ddl_validate_table_name(name)
                        THEN Accept ELSE Raise("DDLSecurityError")
    /\ pc' = "done"
    /\ UNCHANGED <<loc, conns, committed, open, sent>>

CheckDdlColumnName ==
    /\ pc = "idle"
    /\ \E name \in Names :
           /\ op' = "ddl_validate_column_name" /\ req' = [name |-> name]
           /\ result' = IF ddl_validate_column_name(name)
                        THEN Accept ELSE Raise("DDLSecurityError")
    /\ pc' = "done"
    /\ UNCHANGED <<loc, conns, committed, open, sent>>

CheckDmlTableName ==
    /\ pc = "idle"
    /\ \E name \in Names :
           /\ op' = "dml_validate_table_name" /\ req' = [name |-> name]
           /\ result' = IF dml_validate_table_name(name)
                        THEN Accept ELSE Raise("DMLSecurityError")
    /\ pc' = "done"
    /\ UNCHANGED <<loc, conns, committed, open, sent>>

CheckDmlColumnName ==
    /\ pc = "idle"
    /\ \E name \in Names :
           /\ op' = "dml_validate_column_name" /\ req' = [name |-> name]
           /\ result' = IF dml_validate_column_name(name)
                        THEN Accept ELSE Raise("DMLSecurityError")
    /\ pc' = "done"
    /\ UNCHANGED <<loc, conns, committed, open, sent>>

CheckColumnType ==
    /\ pc = "idle"
    /\ \E column_type \in ColumnTypes :
           /\ op' = "_validate_column_type" /\ req' = [column_type |-> column_type]
           /\ result' = IF _validate_column_type(column_type)
                        THEN Accept ELSE Raise("DDLSecurityError")
    /\ pc' = "done"
    /\ UNCHANGED <<loc, conns, committed, open, sent>>

InitPolicy == Idle

NextPolicy ==
    \/ CheckDdlTableName
    \/ CheckDdlColumnName
    \/ CheckDmlTableName
    \/ CheckDmlColumnName
    \/ CheckColumnType

SpecPolicy == InitPolicy /\ [][NextPolicy]_vars

-----------------------------------------------------------------------------
(* Properties of the validator and of execute_query (SpecQuery)             *)

\* the command tokens the dangerous-command stage is specified to block
DangerousTokens ==
    {"DELETE", "DROP", "TRUNCATE", "ALTER", "CREATE", "EXEC", "EXECUTE", "INSERT",
     "UPDATE", "MERGE", "BULK", "OPENROWSET", "OPENDATASOURCE", "SHUTDOWN", "KILL",
     "RESTORE", "BACKUP"}

ContainsDangerousToken(query) ==
    \E token \in DangerousTokens : SearchWholeWord(Upper(query), token)

Validated == op = "validate_query" /\ pc = "done"

\* C1: every query text that contains a dangerous command token as a whole
\* word, in any letter case, is rejected by validate_query, whatever
\* allow_modifications is.
C1_DangerousTokenRejected ==
    (Validated /\ ContainsDangerousToken(req.query)) => ~loc.verdict.is_safe

\* a verb of the comment patterns stands as a whole word inside a line comment
\* (from "--" to the end of its line) or inside a closed block comment
VerbInComment(query) ==
    LET u == Upper(query) IN
    \E i \in 1..Len(u), v \in PATTERN_VERBS, j \in 1..Len(u) :
        /\ HasAt(u, v, j) /\ Boundary(u, j) /\ Boundary(u, j + Len(v))
        /\ \/ HasAt(u, "--", i) /\ j >= i + 2 /\ j + Len(v) <= LineEnd(u, i)
           \/ /\ HasAt(u, "/*", i) /\ BlockEnd(u, i + 2) # 0
              /\ j >= i + 2 /\ j + Len(v) <= BlockEnd(u, i + 2)

\* C2: a query text with a dangerous verb inside a line comment or a block
\* comment of the original text is rejected by validate_query.
C2_CommentVerbRejected ==
    (Validated /\ VerbInComment(req.query)) => ~loc.verdict.is_safe

\* C3: every query text validate_query accepts has SELECT or WITH as the first
\* command token of its cleaned text, for both values of allow_modifications.
C3_AcceptedStartsAllowed ==
    (Validated /\ loc.verdict.is_safe)
        => _get_first_command(_clean_query(req.query)) \in ALLOWED_COMMANDS

Accepted(query) == validate_query(query, FALSE).is_safe

\* C4: execute_query opens a connection and hands a statement to the adapter
\* only for a query text validate_query(text, False) accepts, the statement is
\* the text unmodified, and for a rejected text it ends with no connection, no
\* statement and the rejection dictionary (error, message, rejected query).
C4_ExecuteQueryGate ==
    LET rejected == /\ pc = "done" /\ conns = 0 /\ sent = <<>>
                    /\ result.kind = "return" /\ result.error = "SEGURANCA_SQL"
                    /\ result.message # "" /\ result.detail = req.query
    IN op = "execute_query" =>
        /\ \A i \in 1..Len(sent) : sent[i] = Statement(req.query, <<>>)
        /\ (pc # "validate" /\ ~rejected) => Accepted(req.query)
        /\ rejected => ~Accepted(req.query)

\* C4 witness: an accepted query went through the adapter and rows came back
C4_Witness ==
    /\ op = "execute_query" /\ pc = "done" /\ result = Return("rows")
    /\ conns = 1 /\ sent = <<Statement(req.query, <<>>)>>

-----------------------------------------------------------------------------
(* Properties of the identifier and type validators (SpecPolicy)            *)

\* the identifier policy: the whole name is a letter followed by letters,
\* digits and underscores, and is not a reserved name in any letter case
IdentifierPolicy(name) == IsIdentifier(name) /\ Lower(name) \notin dangerous_names

IdentifierValidators ==
    {"ddl_validate_table_name", "ddl_validate_column_name",
     "dml_validate_table_name", "dml_validate_column_name"}

\* C5: each identifier validator of the DDL and DML operations rejects a name
\* that does not fully match [A-Za-z][A-Za-z0-9_]* or that is, compared
\* case-insensitively, a reserved name, and accepts every other name
C5_IdentifierValidators ==
    (op \in IdentifierValidators /\ pc = "done") =>
        (result = Accept <=> IdentifierPolicy(req.name))

\* the type grammar: the type name and what may follow it
TypeGrammar ==
    {<<"INT", "opt1">>, <<"TINYINT", "opt1">>, <<"BIGINT", "opt1">>,
     <<"VARCHAR", "one">>, <<"CHAR", "one">>,
     <<"TEXT", "none">>, <<"MEDIUMTEXT", "none">>, <<"LONGTEXT", "none">>,
     <<"DECIMAL", "opt2">>, <<"FLOAT", "opt2">>, <<"DOUBLE", "opt2">>,
     <<"DATE", "none">>, <<"DATETIME", "none">>, <<"TIMESTAMP", "none">>,
     <<"BOOLEAN", "none">>, <<"BOOL", "none">>}

\* C8: the column type validator accepts a type only when the whole of its
\* uppercased form matches a pattern of the type grammar; an allowed type
\* followed by any extra character is rejected
C8_TypeFullMatch ==
    (op = "_validate_column_type" /\ pc = "done" /\ result = Accept) =>
        \E pattern \in TypeGrammar : FullMatchType(pattern, Upper(req.column_type))

-----------------------------------------------------------------------------
(* Properties of the DDL and DML tools (SpecOps)                            *)

Contains(s, w) == \E i \in 1..(Len(s) - Len(w) + 1) : HasAt(s, w, i)

\* the statement holds the name in the quoting of the dialect
Quoted(statement, name) == Contains(statement.sql, _escape_identifier(name, req.db_type))

\* caller-supplied text, other than names, types and constraints, that the
\* builders put into the statement
RawTexts ==
    CASE op = "create_table" /\ Lower(req.db_type) = "mysql" ->
             {Get(req.options, key) : key \in {"engine", "charset"}} \ {""}
      [] op = "alter_table" /\ req.operation = "ADD_COLUMN"
            /\ Lower(req.db_type) = "mysql" /\ Has(req.column_spec, "position") ->
             {req.column_spec.position}
      [] OTHER -> {}

KeySet(dict) == {dict[n][1] : n \in 1..Len(dict)}

\* the column names the request puts into its statements
ColumnNames ==
    CASE op = "create_table" -> {req.columns[n].name : n \in 1..Len(req.columns)}
      [] op = "alter_table" -> {req.column_spec.name}
      [] op = "update_records" -> KeySet(req.set_values) \cup KeySet(req.where_conditions)
      [] op = "delete_records" -> KeySet(req.where_conditions)
      [] OTHER -> {}

\* C6: in every statement a tool hands to the adapter the only caller-supplied
\* text is table and column names, and each name, the new name of a
\* RENAME_COLUMN included, passed the identifier validator of its module and
\* stands in the quoting of the dialect
C6_OnlyValidatedIdentifiers ==
    (op \in DdlTools \cup DmlTools /\ sent # <<>>) =>
        /\ IF op \in DdlTools THEN ddl_validate_table_name(req.table_name)
                              ELSE dml_validate_table_name(req.table_name)
        /\ \A name \in ColumnNames :
               IF op \in DdlTools THEN ddl_validate_column_name(name)
                                  ELSE dml_validate_column_name(name)
        /\ (op = "alter_table" /\ req.operation = "RENAME_COLUMN") =>
               ddl_validate_column_name(Get(req.column_spec, "new_name"))
        /\ \A i \in 1..Len(sent) :
               \A name \in {req.table_name} \cup ColumnNames : Quoted(sent[i], name)
        /\ RawTexts = {}

\* the type and the constraints of a column spec that the builder puts into
\* the statement passed _validate_column_type and _validate_column_constraints
EmbeddedSpecValid(col, with_type, with_constraints) ==
    /\ ddl_validate_column_name(col.name)
    /\ with_type => _validate_column_type(col.type)
    /\ (with_constraints /\ Has(col, "constraints")) =>
           _validate_column_constraints(col.constraints)

\* C7: create_table and alter_table build and send a statement only when the
\* name of every column spec is valid and every column type and constraint
\* that appears in the statement passed the type and constraint validators
C7_InvalidSpecAborts ==
    (loc.sql # NoStatement \/ sent # <<>>) =>
        /\ op = "create_table" =>
               \A n \in 1..Len(req.columns) : EmbeddedSpecValid(req.columns[n], TRUE, TRUE)
        /\ op = "alter_table" =>
               EmbeddedSpecValid(req.column_spec,
                                 AlterNeedsType(req.db_type, req.operation),
                                 req.operation = "ADD_COLUMN")

\* two where_conditions with the same columns that differ in one value
DifferInOneValue(where_conditions, other) ==
    /\ Len(where_conditions) = Len(other)
    /\ \A n \in 1..Len(other) : where_conditions[n][1] = other[n][1]
    /\ Cardinality({n \in 1..Len(other) : where_conditions[n][2] # other[n][2]}) = 1

ConfirmationRejected ==
    pc = "done" /\ result \in {ConfirmationError("DDLSecurityError"),
                               ConfirmationError("DMLSecurityError")}

\* C9: delete_records goes on only with the confirmation derived from its
\* table name and where_conditions, and a confirmation derived from
\* where_conditions that differ from the request's in a single value is
\* rejected
C9_ConfirmationPerConditions ==
    (op = "delete_records" /\ Has(req, "where_conditions")
        /\ pc # "confirm" /\ ~ConfirmationRejected) =>
        /\ req.confirmation
               = _generate_delete_confirmation(req.table_name, req.where_conditions)
        /\ \A other \in Dicts :
               DifferInOneValue(req.where_conditions, other) =>
                   req.confirmation # _generate_delete_confirmation(req.table_name, other)

\* the operation stopped at the comparison of the confirmation: nothing built,
\* no connection opened, nothing sent
AbortedAtConfirmation ==
    /\ pc \in {"confirm", "done"}
    /\ pc = "done" => ConfirmationRejected
    /\ loc.sql = NoStatement /\ conns = 0 /\ open = 0 /\ sent = <<>>

\* C10: drop_table and delete_records with a confirmation that is not exactly
\* the derived token ("DELETE_TABLE_" and the table name for drop_table) abort
\* before a statement is built or a connection opened, so a DROP TABLE or
\* DELETE statement reaches the adapter only after the confirmation matched
C10_ConfirmationFirst ==
    /\ (op = "drop_table" /\ req.confirmation # "DELETE_TABLE_" \o req.table_name) =>
           AbortedAtConfirmation
    /\ (op = "delete_records" /\ Has(req, "where_conditions")
           /\ req.confirmation
                  # _generate_delete_confirmation(req.table_name, req.where_conditions)) =>
           AbortedAtConfirmation

\* drop_table refused a confirmation that differs from the expected one in
\* letter case only
C10_Witness ==
    /\ op = "drop_table" /\ pc = "done"
    /\ req.table_name = "users" /\ req.confirmation = "delete_table_users"
    /\ result = ConfirmationError("DDLSecurityError")
    /\ loc.sql = NoStatement /\ conns = 0 /\ sent = <<>>

\* the COUNT(*) statement of the request
CountStatement ==
    _generate_count_sql(req.db_type, req.table_name, req.where_conditions)

\* C11: update_records and delete_records send the mutating statement only
\* after the pre-count was compared with safety_limit (1000 for UPDATE and 100
\* for DELETE when the request gives none): a pre-count up to and equal to the
\* limit goes on to the mutating statement, a pre-count of limit + 1 or more
\* aborts with nothing but the count statement sent
C11_SafetyLimitBoundary ==
    op \in DmlTools =>
        /\ Len(sent) >= 2 =>
               /\ sent[1] = CountStatement /\ sent[2] = loc.sql /\ Len(sent) = 2
               /\ loc.affected_count <= safety_limit
        /\ result = SafetyLimitError =>
               /\ pc = "done" /\ sent = <<CountStatement>>
               /\ loc.affected_count >= safety_limit + 1
        /\ (pc \in {"dml_connect", "dml_execute", "dml_commit"}) =>
               loc.affected_count <= safety_limit
        /\ (pc = "done" /\ Len(sent) = 1 /\ sent = <<CountStatement>>
               /\ open = 0 /\ conns = 1
               /\ loc.affected_count > safety_limit) => result = SafetyLimitError

\* delete_records without a safety_limit found exactly 100 rows and deleted
C11_Witness ==
    /\ op = "delete_records" /\ ~Has(req, "safety_limit")
    /\ loc.affected_count = DeleteDefaultLimit
    /\ pc = "done" /\ result = Return("success")
    /\ sent = <<CountStatement, loc.sql>>

\* the request has no where_conditions entry or an empty one
NoWhereConditions == ~Has(req, "where_conditions") \/ req.where_conditions = <<>>

\* C12: update_records and delete_records reject a request whose
\* where_conditions are empty or missing, and update_records a request whose
\* set_values are empty, before a statement is built and before any adapter
\* call: no UPDATE or DELETE statement is built or sent for such a request
C12_WhereRequired ==
    (op \in DmlTools
        /\ (NoWhereConditions \/ (op = "update_records" /\ req.set_values = <<>>))) =>
        /\ pc \in {"confirm", "validate", "done"}
        /\ pc = "done" => result.kind = "raise"
        /\ loc.sql = NoStatement /\ conns = 0 /\ open = 0 /\ sent = <<>>

\* delete_records with empty where_conditions and the confirmation derived
\* from them was stopped by the validation
C12_Witness ==
    /\ op = "delete_records" /\ Has(req, "where_conditions")
    /\ req.where_conditions = <<>> /\ req.table_name = "users"
    /\ req.confirmation = "DELETE_FROM_users_WHERE_"
    /\ pc = "done" /\ result = Raise("DMLSecurityError")
    /\ loc.sql = NoStatement /\ conns = 0 /\ sent = <<>>

-----------------------------------------------------------------------------
(* C13: UPDATE, DELETE and bulk INSERT statements hold no data value        *)

\* the dictionary with every value replaced by the same one
Blind(dict) == [n \in 1..Len(dict) |-> <<dict[n][1], IntValue(0)>>]

BlindRecords(records) ==
    [i \in 1..Len(records) |-> Record(Blind(records[i].items))]

\* the number of placeholders of the dialect in a statement text
Placeholders(sql) ==
    Cardinality({i \in 1..Len(sql) : HasAt(sql, _get_parameter_placeholder(req.db_type), i)})

\* the batch the statement in loc.sql was built for
CurrentBatch == Batch(req.records, loc.i, batch_size)

\* a tool has just built a statement: update_records and delete_records
\* before get_db, bulk_insert before it executes the batch (loc.sql does not
\* change until the next statement is built)
StatementBuilt ==
    \/ op \in DmlTools /\ pc = "get_db" /\ loc.sql /= NoStatement
    \/ op = "bulk_insert" /\ pc = "dml_connect"

\* C13: the text of every UPDATE, DELETE and bulk INSERT statement built is
\* the text built for the same names with every data value replaced (it is
\* made of names and placeholders only), and the statement has as many
\* parameters as its text has placeholders and as the request has data
\* values: |set_values| + |where_conditions| for UPDATE, |where_conditions|
\* for DELETE, rows x columns for a bulk INSERT
C13_NoValueInText ==
    StatementBuilt =>
        /\ Len(loc.sql.params) = Placeholders(loc.sql.sql)
        /\ op = "update_records" =>
               /\ loc.sql.sql =
                      _generate_update_sql(req.db_type, req.table_name,
                                           Blind(req.set_values),
                                           Blind(req.where_conditions)).sql
               /\ Len(loc.sql.params) = Len(req.set_values) + Len(req.where_conditions)
        /\ op = "delete_records" =>
               /\ loc.sql.sql =
                      _generate_delete_sql(req.db_type, req.table_name,
                                           Blind(req.where_conditions)).sql
               /\ Len(loc.sql.params) = Len(req.where_conditions)
        /\ op = "bulk_insert" =>
               /\ loc.sql.sql =
                      _generate_bulk_insert_sql(req.db_type, req.table_name,
                                                BlindRecords(CurrentBatch)).sql
               /\ Len(loc.sql.params) =
                      Len(CurrentBatch) * Cardinality(KeysOf(CurrentBatch[1]))
               /\ Len(loc.sql.params) =
                      Len(Concat([i \in 1..Len(CurrentBatch) |-> CurrentBatch[i].items]))

\* a bulk INSERT of two rows of two columns has been built
C13_Witness ==
    /\ StatementBuilt /\ op = "bulk_insert"
    /\ Len(CurrentBatch) = 2
    /\ Len(loc.sql.params) = 4 /\ Placeholders(loc.sql.sql) = 4

-----------------------------------------------------------------------------
(* C14: the pre-count and the mutating statement select the same rows       *)

\* where the last " WHERE " of a statement text begins, 0 when it has none
WherePosition(sql) ==
    LET at == {i \in 1..Len(sql) : HasAt(sql, " WHERE ", i)} IN
    IF at = {} THEN 0 ELSE CHOOSE i \in at : \A j \in at : j <= i

\* the WHERE clause of a statement text
WhereClause(sql) ==
    IF WherePosition(sql) = 0 THEN "" ELSE SubSeq(sql, WherePosition(sql), Len(sql))

\* the parameters of the WHERE clause: those after the parameters of SET
WhereParams(statement) ==
    SubSeq(statement.params,
           IF op = "update_records" THEN Len(req.set_values) + 1 ELSE 1,
           Len(statement.params))

\* C14: when update_records or delete_records has sent its pre-count and its
\* UPDATE or DELETE, the two statements have the same WHERE clause text and
\* the parameters of the pre-count are the parameters of the WHERE clause of
\* the UPDATE or DELETE, in the same order
C14_CountSameRows ==
    (op \in DmlTools /\ Len(sent) >= 2) =>
        /\ HasAt(sent[1].sql, "SELECT COUNT(*) FROM ", 1)
        /\ WhereClause(sent[1].sql) /= ""
        /\ WhereClause(sent[1].sql) = WhereClause(sent[2].sql)
        /\ sent[1].params = WhereParams(sent[2])

\* an UPDATE of one value under two conditions, sent after its pre-count
C14_Witness ==
    /\ op = "update_records" /\ pc = "done" /\ result = Return("success")
    /\ Len(req.set_values) = 1 /\ Len(req.where_conditions) = 2
    /\ Len(sent) = 2 /\ Len(sent[1].params) = 2 /\ Len(sent[2].params) = 3

-----------------------------------------------------------------------------
(* C15: errors of the tool itself and calls of the adapter                  *)

\* the tool has raised an error of its own: a security rejection, a
\* confirmation mismatch, a safety-limit abort or a validation error, not an
\* error of the adapter
LocalError == pc = "done" /\ result.kind = "raise" /\ result.error /= "AdapterError"

\* C15 as stated: every error of the tool itself, the safety-limit abort
\* included, is raised before any connection is opened and before any
\* statement is executed
C15_LocalErrorsBeforeAdapter ==
    LocalError => conns = 0 /\ open = 0 /\ sent = <<>>

\* C15 amended: a security rejection, a confirmation mismatch and a
\* validation error are raised before any connection is opened and before
\* any statement is executed; the safety-limit abort is raised after the
\* pre-count alone: one connection was opened and closed again, the only
\* statement executed is the SELECT COUNT(*), and no UPDATE or DELETE was
\* built into a statement that was sent
C15_LocalErrorsBeforeMutation ==
    LocalError =>
        IF result = SafetyLimitError
        THEN /\ op \in DmlTools
             /\ conns = 1 /\ open = 0
             /\ sent = <<CountStatement>>
             /\ HasAt(sent[1].sql, "SELECT COUNT(*) FROM ", 1)
        ELSE conns = 0 /\ open = 0 /\ sent = <<>>

\* update_records has aborted at the safety limit after its pre-count
C15_Witness ==
    /\ op = "update_records" /\ pc = "done" /\ result = SafetyLimitError
    /\ loc.affected_count = 2 /\ safety_limit = 1
    /\ conns = 1 /\ open = 0 /\ Len(sent) = 1

-----------------------------------------------------------------------------
(* C16: connections are released on every way out                           *)

\* C16: whenever a DDL tool, update_records, delete_records or bulk_insert
\* has returned or raised, also after a failure of the adapter in execute or
\* commit, every connection it opened has been closed
C16_ConnectionsReleased ==
    (op \in DdlTools \cup DmlTools \cup {"bulk_insert"} /\ pc = "done") => open = 0

-----------------------------------------------------------------------------
(* C17: bulk_insert sends one multi-row INSERT per chunk of the records     *)

\* ceil(n / size) for size >= 1
Ceil(n, size) == (n + size - 1) \div size

\* the k-th chunk of at most size consecutive records
Chunk(records, k, size) ==
    SubSeq(records, (k - 1) * size + 1,
           IF k * size < Len(records) THEN k * size ELSE Len(records))

\* the beginning of a multi-row INSERT: the table and the column list
InsertHead(db_type, table_name, columns) ==
    "INSERT INTO " \o _escape_identifier(table_name, db_type) \o " ("
    \o Join([n \in 1..Len(columns) |-> _escape_identifier(columns[n], db_type)], ", ")
    \o ") VALUES ("

\* the values of a chunk row by row, each row in the given column order
RowByRow(chunk, columns) ==
    Concat([i \in 1..Len(chunk) |-> [n \in 1..Len(columns) |-> Item(chunk[i], columns[n])]])

\* the statement is the multi-row INSERT of the chunk
InsertOfChunk(statement, chunk) ==
    LET columns == Keys(chunk[1].items) IN
    /\ HasAt(statement.sql, InsertHead(req.db_type, req.table_name, columns), 1)
    /\ Placeholders(statement.sql) = Len(chunk) * Len(columns)
    /\ statement.params = RowByRow(chunk, columns)

\* C17: for a batch_size of at least 1 and n records, the k-th statement
\* bulk_insert sends is the multi-row INSERT of the k-th chunk of at most
\* batch_size consecutive records: its column list is the key order of the
\* first record of the chunk and its parameters are the values of the chunk
\* row by row in that order; never more than ceil(n / batch_size)
\* statements are sent, and when bulk_insert returns exactly that many have
\* been, so that every record is in exactly one statement
C17_OneInsertPerChunk ==
    (op = "bulk_insert" /\ batch_size >= 1) =>
        /\ Len(sent) <= Ceil(Len(req.records), batch_size)
        /\ \A k \in 1..Len(sent) :
               /\ Chunk(req.records, k, batch_size) /= <<>>
               /\ Len(Chunk(req.records, k, batch_size)) <= batch_size
               /\ InsertOfChunk(sent[k], Chunk(req.records, k, batch_size))
        /\ (pc = "done" /\ result.kind = "return") =>
               /\ Len(sent) = Ceil(Len(req.records), batch_size)
               /\ Concat([k \in 1..Len(sent) |-> Chunk(req.records, k, batch_size)])
                      = req.records
               /\ loc.total_inserted = Len(req.records)

\* three records in chunks of two: two statements, the first for two records
\* whose keys are in a different order
C17_Witness ==
    /\ op = "bulk_insert" /\ pc = "done" /\ result = Return("success")
    /\ Len(req.records) = 3 /\ batch_size = 2 /\ Len(sent) = 2
    /\ Keys(req.records[1].items) /= Keys(req.records[2].items)
    /\ Len(sent[1].params) = 4 /\ Len(sent[2].params) = 2

-----------------------------------------------------------------------------
(* C18: records of different shapes                                         *)

\* some record is no dictionary, or has a key set that is not the first
\* record's
MixedRecords(records) ==
    \E i \in 1..Len(records) :
        ~records[i].mapping \/ KeysOf(records[i]) /= KeysOf(records[1])

\* C18: when a record of bulk_insert is no dictionary or has a key set that
\* is not the first record's, the request is rejected with an error before
\* any INSERT statement is built and before any connection is opened, and
\* no statement is sent
C18_MixedRecordsRejected ==
    (op = "bulk_insert" /\ MixedRecords(req.records)) =>
        /\ pc \in {"validate", "done"}
        /\ pc = "done" => result.kind = "raise"
        /\ loc.sql = NoStatement /\ conns = 0 /\ open = 0 /\ sent = <<>>

\* a request whose second record lacks a key of the first has been rejected
C18_Witness ==
    /\ op = "bulk_insert" /\ req.table_name = "users" /\ Len(req.records) = 2
    /\ req.records[1].mapping /\ req.records[2].mapping
    /\ KeysOf(req.records[1]) = {"id", "nm"} /\ KeysOf(req.records[2]) = {"id"}
    /\ pc = "done" /\ result = Raise("DMLSecurityError")
    /\ loc.sql = NoStatement /\ conns = 0 /\ sent = <<>>

-----------------------------------------------------------------------------
(* C19, C20: the validator and the cleaned text (SpecQuery)                 *)

\* C19: validate_query accepts the cleaned form of a query text exactly when
\* it accepts the text itself
C19_CleaningIdempotent ==
    Validated =>
        validate_query(_clean_query(req.query), req.allow_modifications).is_safe
            = loc.verdict.is_safe

\* the text holds no dangerous command token, no dangerous pattern and no
\* conditional command
NothingDangerous(query) ==
    /\ _check_dangerous_commands(query) = {}
    /\ _check_dangerous_patterns(query) = {}
    /\ _check_conditional_commands(query) = {}

\* C20: every query text whose cleaned form begins with SELECT or WITH, in
\* any letter case, and that holds no dangerous command token, no dangerous
\* pattern and no conditional command is accepted by validate_query
C20_CleanSelectAccepted ==
    (/\ Validated
     /\ _get_first_command(_clean_query(req.query)) \in ALLOWED_COMMANDS
     /\ NothingDangerous(req.query)) => loc.verdict.is_safe

-----------------------------------------------------------------------------
(* C21, C22: conditional commands and modification commands (SpecQuery)     *)

\* C21: every query text that contains UNION, INTERSECT or EXCEPT as a whole
\* word, in any letter case, is rejected by validate_query, for both values
\* of allow_modifications
C21_ConditionalRejected ==
    (Validated /\ _check_conditional_commands(req.query) /= {}) => ~loc.verdict.is_safe

\* C22: when allow_modifications is false and the cleaned text contains
\* INSERT, UPDATE, DELETE or MERGE as a whole word, validate_query rejects
\* with the reason of the modification-command stage, which is not the
\* reason of the dangerous-command stage
C22_ModificationReason ==
    (/\ Validated /\ ~req.allow_modifications
     /\ _check_modification_commands(_clean_query(req.query)) /= {}) =>
        /\ ~loc.verdict.is_safe
        /\ loc.verdict.message = "COMANDOS DE MODIFICACAO DETECTADOS"
        /\ loc.verdict.message /= "COMANDO PERIGOSO DETECTADO"

-----------------------------------------------------------------------------
(* C23: column constraints (SpecOps)                                        *)

\* the allowlist of constraint tokens
ConstraintTokens ==
    {"NOT NULL", "PRIMARY KEY", "UNIQUE", "DEFAULT", "CHECK", "FOREIGN KEY", "INDEX",
     "AUTO_INCREMENT"}

\* the text begins, in any letter case, with a token of the allowlist
AllowedConstraint(constraint) ==
    \E token \in ConstraintTokens : StartsWith(Upper(constraint), token)

\* the constraints of a column spec
ConstraintsOf(col) ==
    IF Has(col, "constraints")
    THEN {col.constraints[n] : n \in 1..Len(col.constraints)} ELSE {}

\* C23: a statement of create_table or alter_table is sent only with
\* constraints that begin, in any letter case, with a token of the
\* allowlist; a request with any other constraint text is rejected and the
\* text appears in no statement sent
C23_ConstraintAllowlist ==
    sent /= <<>> =>
        /\ op = "create_table" =>
               \A n \in 1..Len(req.columns) :
                   \A constraint \in ConstraintsOf(req.columns[n]) :
                       AllowedConstraint(constraint)
        /\ (op = "alter_table" /\ req.operation = "ADD_COLUMN") =>
               \A constraint \in ConstraintsOf(req.column_spec) :
                   AllowedConstraint(constraint)

-----------------------------------------------------------------------------
(* C24: the quoting and the placeholder of each dialect (SpecOps)           *)

\* the dialect table: what opens and closes a quoted identifier, and the
\* placeholder
DialectTable ==
    [mysql |-> [open |-> Backtick, close |-> Backtick, placeholder |-> "%s"],
     postgres |-> [open |-> "\"", close |-> "\"", placeholder |-> "%s"],
     mssql |-> [open |-> "[", close |-> "]", placeholder |-> "?"]]

Dialects == DOMAIN DialectTable

\* the quoting characters and placeholders of the table that are not the
\* dialect's own
ForeignMarks(dialect) ==
    UNION {{DialectTable[d].open, DialectTable[d].close, DialectTable[d].placeholder} :
              d \in Dialects}
    \ {DialectTable[dialect].open, DialectTable[dialect].close,
        DialectTable[dialect].placeholder}

\* the names a statement of the request quotes: the table, the keys of
\* where_conditions and the records, and in an UPDATE the keys of set_values
QuotedNames(statement) ==
    {req.table_name}
    \cup (IF op = "update_records" /\ StartsWith(statement.sql, "UPDATE ")
          THEN KeySet(req.set_values) ELSE {})
    \cup (IF op \in DmlTools THEN KeySet(req.where_conditions) ELSE {})
    \cup (IF op = "bulk_insert" THEN KeysOf(req.records[1]) ELSE {})

\* the statement is written in the dialect: every name in the dialect's
\* quoting, one placeholder of the dialect per parameter, and no quoting
\* character or placeholder of another dialect
InDialect(statement, dialect) ==
    LET row == DialectTable[dialect] IN
    /\ \A name \in QuotedNames(statement) :
           Contains(statement.sql, row.open \o name \o row.close)
    /\ Cardinality({i \in 1..Len(statement.sql) :
                        HasAt(statement.sql, row.placeholder, i)})
           = Len(statement.params)
    /\ \A mark \in ForeignMarks(dialect) : ~Contains(statement.sql, mark)

\* C24: every statement sent to the adapter (each is the last of sent when
\* it is sent) is for mysql, postgres or mssql and is written with the
\* quoting and the placeholder the dialect table gives for that dialect
C24_DialectTable ==
    sent /= <<>> =>
        /\ req.db_type \in Dialects
        /\ InDialect(sent[Len(sent)], req.db_type)

\* an UPDATE for mssql has been sent with square brackets and question marks
C24_Witness ==
    /\ op = "update_records" /\ req.db_type = "mssql" /\ Len(sent) = 2
    /\ Contains(sent[2].sql, "UPDATE [users] SET [")
    /\ Contains(sent[2].sql, "] = ?")

-----------------------------------------------------------------------------
(* C25: the text and the parameters of an UPDATE (SpecOps)                  *)

\* a name in the quoting of the dialect table
InQuotes(name, dialect) ==
    DialectTable[dialect].open \o name \o DialectTable[dialect].close

\* where the n-th placeholder of a statement text begins
PlaceholderAt(sql, dialect, n) ==
    LET at == {i \in 1..Len(sql) : HasAt(sql, DialectTable[dialect].placeholder, i)} IN
    CHOOSE i \in at : Cardinality({j \in at : j <= i}) = n

\* where the text before the n-th placeholder begins: at the start for the
\* first one, after the placeholder before it for the others
ClauseStart(sql, dialect, n) ==
    IF n = 1 THEN 1
    ELSE PlaceholderAt(sql, dialect, n - 1) + Len(DialectTable[dialect].placeholder)

\* what stands before the clause of the n-th column
ClauseLead(n) ==
    IF n = 1 THEN "UPDATE " \o InQuotes(req.table_name, req.db_type) \o " SET "
    ELSE IF n <= Len(req.set_values) THEN ", "
    ELSE IF n = Len(req.set_values) + 1 THEN " WHERE "
    ELSE " AND "

\* C25: the UPDATE built for a dialect of the table is 'UPDATE <table> SET
\* <col> = <ph>, ... WHERE <col> = <ph> AND ...' over the keys of set_values
\* and then the keys of where_conditions, each in its order, and its n-th
\* parameter is the value of the n-th of those columns
C25_UpdateTextAndParams ==
    (op = "update_records" /\ StatementBuilt /\ req.db_type \in Dialects) =>
        LET statement == loc.sql
            columns == Keys(req.set_values) \o Keys(req.where_conditions)
            values == Values(req.set_values) \o Values(req.where_conditions)
            ph == DialectTable[req.db_type].placeholder
        IN  /\ Placeholders(statement.sql) = Len(columns)
            /\ \A n \in 1..Len(columns) :
                   LET lead == ClauseLead(n) \o InQuotes(columns[n], req.db_type) \o " = "
                       start == ClauseStart(statement.sql, req.db_type, n)
                   IN  /\ HasAt(statement.sql, lead, start)
                       /\ PlaceholderAt(statement.sql, req.db_type, n) = start + Len(lead)
            /\ PlaceholderAt(statement.sql, req.db_type, Len(columns)) + Len(ph) - 1
                   = Len(statement.sql)
            /\ statement.params = values
            /\ \A n \in 1..Len(columns) : statement.params[n] = values[n]

\* the UPDATE of table users with set {nm: x} and where {id: 1} has been
\* built for mysql
C25_Witness ==
    /\ op = "update_records" /\ StatementBuilt /\ req.db_type = "mysql"
    /\ req.table_name = "users"
    /\ req.set_values = <<<<"nm", StrValue("x")>>>>
    /\ req.where_conditions = <<<<"id", IntValue(1)>>>>
    /\ loc.sql.sql = "UPDATE " \o Backtick \o "users" \o Backtick \o " SET " \o Backtick
                         \o "nm" \o Backtick \o " = %s WHERE " \o Backtick \o "id"
                         \o Backtick \o " = %s"
    /\ loc.sql.params = <<StrValue("x"), IntValue(1)>>

-----------------------------------------------------------------------------
(* C26: suspicious values and malformed names are blocked (SpecOps)         *)

\* the dictionaries of names and data values the request carries
RequestDicts ==
    (IF Has(req, "set_values") THEN {req.set_values} ELSE {})
    \cup (IF Has(req, "where_conditions") THEN {req.where_conditions} ELSE {})
    \cup (IF Has(req, "records")
          THEN {req.records[i].items :
                    i \in {j \in 1..Len(req.records) : req.records[j].mapping}}
          ELSE {})

\* the request carries a string value that matches a suspicious pattern
SuspiciousValue ==
    \E dict \in RequestDicts : \E n \in 1..Len(dict) :
        dict[n][2].type = "str" /\ SuspiciousPatterns(dict[n][2].text) /= {}

\* the request carries a table or column name outside the identifier grammar
\* (a letter, then letters, digits and underscores)
MalformedName ==
    \/ ~IsIdentifier(req.table_name)
    \/ \E dict \in RequestDicts : \E n \in 1..Len(dict) : ~IsIdentifier(dict[n][1])

\* C26: update_records, delete_records and bulk_insert open no connection
\* and execute no statement for a request with a suspicious string value or
\* with a malformed table or column name, and end it with an error
C26_InjectionBlocked ==
    (op \in DmlTools \cup {"bulk_insert"} /\ (SuspiciousValue \/ MalformedName)) =>
        /\ conns = 0 /\ open = 0 /\ sent = <<>>
        /\ pc = "done" => result.kind = "raise"

-----------------------------------------------------------------------------
(* C27: connection parameters are normalized, and incomplete ones are a     *)
(* hard error (SpecOps)                                                     *)

\* the server of connection parameters: server, or host when there is no
\* server
ServerOf(params) ==
    IF "server" \in DOMAIN params THEN params["server"] ELSE Get(params, "host")

\* the database of connection parameters: database, or db, or else dbname,
\* when there is no database
DatabaseOf(params) ==
    IF "database" \in DOMAIN params THEN params["database"]
    ELSE IF "db" \in DOMAIN params THEN params["db"]
    ELSE Get(params, "dbname")

\* the parameters lack server or database after normalization
LacksServerOrDatabase(params) == ServerOf(params) = "" \/ DatabaseOf(params) = ""

\* the tool has its connection parameters: ensure_valid_conn_params has
\* returned them
HasConnParams == loc.conn_params /= EmptyDict

-----------------------------------------------------------------------------
(* C28: the safety limit under concurrent clients (SpecOps)                 *)

\* the UPDATE or DELETE of the tool has run
MutationRan ==
    /\ op \in DmlTools /\ Len(sent) = 2
    /\ pc = "dml_commit" \/ (pc = "done" /\ result.kind = "return")

\* C28: the UPDATE or DELETE of update_records and delete_records changes no
\* more rows than safety_limit, and changes the rows the pre-count counted,
\* whatever other clients of the database do between the pre-count and the
\* statement
C28_LimitHoldsUnderConcurrency ==
    MutationRan =>
        /\ loc.affected_rows <= safety_limit
        /\ loc.affected_rows = loc.affected_count

-----------------------------------------------------------------------------
(* C29: a success of bulk_insert means every record was inserted (SpecOps)  *)

\* bulk_insert has returned its result
BulkInsertReturned == op = "bulk_insert" /\ pc = "done" /\ result.kind = "return"

\* the number of values handed to the adapter in all the statements sent
ValuesSent == Len(Concat([k \in 1..Len(sent) |-> sent[k].params]))

\* C29: when bulk_insert returns for n records, whatever integer batch_size
\* is (positive, zero or negative), total_inserted is n and the values of
\* all n records have been sent to the adapter
C29_SuccessMeansAllInserted ==
    BulkInsertReturned =>
        /\ loc.total_inserted = Len(req.records)
        /\ ValuesSent = Len(req.records) * Cardinality(KeysOf(req.records[1]))

-----------------------------------------------------------------------------
(* C30: bulk_insert commits chunk by chunk and stops at the first failure   *)
(* (SpecOps)                                                                *)

\* bulk_insert has its adapter instance and has ended before every chunk
\* was committed: the adapter failed on chunk Len(committed) + 1
FailedOnChunk ==
    /\ op = "bulk_insert" /\ batch_size >= 1 /\ pc = "done" /\ loc.db /= EmptyDict
    /\ Len(committed) < Ceil(Len(req.records), batch_size)

=============================================================================
